---------------------------- MODULE Spec2Model ----------------------------
(***************************************************************************)
(* Model of the quotation PDF generator (src/gerador_funcoes.py).          *)
(*                                                                         *)
(* HTML text is a sequence of one-character strings.  The regular          *)
(* expressions of the sanitizers are translated one by one into matchers   *)
(* that return the end of the leftmost match Python's re module finds, and *)
(* re.sub is the left-to-right, non-overlapping replacement loop.          *)
(***************************************************************************)
EXTENDS Naturals, Sequences, FiniteSets, TLC

(***************************************************************************)
(* Bounds of the model.                                                    *)
(***************************************************************************)
\* longest list of declarations inside one generated style attribute
MaxDecls == 4
\* longest list of attributes on one generated element
MaxAttrs == 2
\* most bytes a backend writes to its buffer before it reports failure
MaxPartial == 1

(***************************************************************************)
(* Characters and character classes of Python's re (str patterns).         *)
(***************************************************************************)
DQ == "\""

SQ == "'"

\* \s
Space == {" ", "\t", "\n", "\r", "\f"}

UpperToLower ==
  [c \in {"A","B","C","D","E","F","G","H","I","J","K","L","M","N","O","P","Q",
          "R","S","T","U","V","W","X","Y","Z"} |->
     CASE c = "A" -> "a" [] c = "B" -> "b" [] c = "C" -> "c" [] c = "D" -> "d"
       [] c = "E" -> "e" [] c = "F" -> "f" [] c = "G" -> "g" [] c = "H" -> "h"
       [] c = "I" -> "i" [] c = "J" -> "j" [] c = "K" -> "k" [] c = "L" -> "l"
       [] c = "M" -> "m" [] c = "N" -> "n" [] c = "O" -> "o" [] c = "P" -> "p"
       [] c = "Q" -> "q" [] c = "R" -> "r" [] c = "S" -> "s" [] c = "T" -> "t"
       [] c = "U" -> "u" [] c = "V" -> "v" [] c = "W" -> "w" [] c = "X" -> "x"
       [] c = "Y" -> "y" [] c = "Z" -> "z"]

\* re.IGNORECASE compares letters by their lower-case form
Lower(c) == IF c \in DOMAIN UpperToLower THEN UpperToLower[c] ELSE c

\* \w, the class whose edges \b finds
WordChar ==
  {"a","b","c","d","e","f","g","h","i","j","k","l","m","n","o","p","q","r",
   "s","t","u","v","w","x","y","z","0","1","2","3","4","5","6","7","8","9",
   "_"} \cup DOMAIN UpperToLower

\* the literal lit stands at s[i..], letters compared without case
MatchLit(s, i, lit) ==
  /\ i + Len(lit) - 1 <= Len(s)
  /\ \A k \in 1..Len(lit) : Lower(s[i + k - 1]) = lit[k]

\* the least number of a non-empty set of numbers
Least(P) == CHOOSE j \in P : \A k \in P : j <= k

\* greedy \s* from i: the index just after the run of white space
SkipSpaces(s, i) ==
  Least({j \in i..(Len(s) + 1) : j > Len(s) \/ s[j] \notin Space})

\* greedy [^...]* from i: the index of the first character in stop, or Len(s)+1
SkipUntil(s, i, stop) ==
  Least({j \in i..(Len(s) + 1) : j > Len(s) \/ s[j] \in stop})

\* str.strip(): white space removed at both ends
Strip(s) ==
  LET keep == {j \in 1..Len(s) : s[j] \notin Space}
  IN  IF keep = {} THEN <<>>
      ELSE SubSeq(s, Least(keep),
                  CHOOSE j \in keep : \A k \in keep : k <= j)

\* (?:height|width): the index after the keyword that stands at i, 0 if none
DimKeywordEnd(s, i) ==
  IF MatchLit(s, i, <<"h","e","i","g","h","t">>) THEN i + 6
  ELSE IF MatchLit(s, i, <<"w","i","d","t","h">>) THEN i + 5
  ELSE 0

\* re.sub scans from the left: the first position from i where a match
\* starts, given the set of all positions where one starts; 0 if none
FirstFrom(starts, i) ==
  IF {j \in starts : j >= i} = {} THEN 0
  ELSE Least({j \in starts : j >= i})

\* _ATTR_DIM_RE: \s*(?:height|width)\s*=\s*"[^"]*" or the same in '...'.
\* The index after a match that starts at i, 0 when there is none.
_ATTR_DIM_RE(s, i) ==
  LET k == DimKeywordEnd(s, SkipSpaces(s, i))
      b == SkipSpaces(s, k)
      c == SkipSpaces(s, b + 1)
      e == SkipUntil(s, c + 1, {s[c]})
  IN  IF k = 0 THEN 0
      ELSE IF b > Len(s) \/ s[b] # "=" THEN 0
      ELSE IF c > Len(s) \/ s[c] \notin {DQ, SQ} THEN 0
      ELSE IF e > Len(s) THEN 0
      ELSE e + 1

\* _ATTR_DIM_RE.sub('', html): the text from i on, every match dropped
RECURSIVE SubAttrDim(_, _, _)
SubAttrDim(s, starts, i) ==
  LET m == FirstFrom(starts, i)
  IN  IF m = 0 THEN SubSeq(s, i, Len(s))
      ELSE SubSeq(s, i, m - 1) \o SubAttrDim(s, starts, _ATTR_DIM_RE(s, m))

\* a plausible slip: the pattern without its final ;? leaves the semicolon
StyleDimNoSemicolon(s, i) ==
  LET k == DimKeywordEnd(s, i)
      b == SkipSpaces(s, k)
      e == SkipUntil(s, b + 1, {";", DQ})
  IN  IF i > 1 /\ s[i - 1] \in WordChar THEN 0
      ELSE IF k = 0 THEN 0
      ELSE IF b > Len(s) \/ s[b] # ":" THEN 0
      ELSE IF e = b + 1 THEN 0
      ELSE e

\* _STYLE_DIM_RE_INTERNAL: \b(height|width)\s*:\s*[^;"]+;?
\* \s*[^;"]+ together take the whole run of characters other than ; and ",
\* which must not be empty.
_STYLE_DIM_RE_INTERNAL(s, i) ==
  LET k == DimKeywordEnd(s, i)
      b == SkipSpaces(s, k)
      e == SkipUntil(s, b + 1, {";", DQ})
  IN  IF i > 1 /\ s[i - 1] \in WordChar THEN 0
      ELSE IF k = 0 THEN 0
      ELSE IF b > Len(s) \/ s[b] # ":" THEN 0
      ELSE IF e = b + 1 THEN 0
      ELSE IF e <= Len(s) /\ s[e] = ";" THEN e + 1
      ELSE e

\* _STYLE_DIM_RE_INTERNAL.sub('', style_content)
RECURSIVE SubStyleDim(_, _, _)
SubStyleDim(s, starts, i) ==
  LET m == FirstFrom(starts, i)
  IN  IF m = 0 THEN SubSeq(s, i, Len(s))
      ELSE SubSeq(s, i, m - 1)
             \o SubStyleDim(s, starts, _STYLE_DIM_RE_INTERNAL(s, m))

\* ;\s*; : the index after a match that starts at i, 0 when there is none
DoubleSemicolonEnd(s, i) ==
  LET j == SkipSpaces(s, i + 1)
  IN  IF s[i] = ";" /\ j <= Len(s) /\ s[j] = ";" THEN j + 1 ELSE 0

\* re.sub(r';\s*;', ';', s)
RECURSIVE SubDoubleSemicolon(_, _, _)
SubDoubleSemicolon(s, starts, i) ==
  LET m == FirstFrom(starts, i)
  IN  IF m = 0 THEN SubSeq(s, i, Len(s))
      ELSE SubSeq(s, i, m - 1) \o <<";">>
             \o SubDoubleSemicolon(s, starts, DoubleSemicolonEnd(s, m))

\* \s{2,} : the index after a match that starts at i, 0 when there is none
SpaceRunEnd(s, i) ==
  IF s[i] \in Space /\ i + 1 <= Len(s) /\ s[i + 1] \in Space
  THEN SkipSpaces(s, i) ELSE 0

\* re.sub(r'\s{2,}', ' ', s)
RECURSIVE SubSpaceRuns(_, _, _)
SubSpaceRuns(s, starts, i) ==
  LET m == FirstFrom(starts, i)
  IN  IF m = 0 THEN SubSeq(s, i, Len(s))
      ELSE SubSeq(s, i, m - 1) \o <<" ">>
             \o SubSpaceRuns(s, starts, SpaceRunEnd(s, m))

CollapseSpaces(s) ==
  SubSpaceRuns(s, {j \in 1..Len(s) : SpaceRunEnd(s, j) # 0}, 1)

\* The tail shared by the style-attribute patterns, tried with the white
\* space character at j:  \sstyle\s*=\s*q([^q]*)q  for the quote q.
\* A record of where the value and the match end, or ok = FALSE.
StyleTail(s, j, q) ==
  LET a == SkipSpaces(s, j + 6)
      c == SkipSpaces(s, a + 1)
      e == SkipUntil(s, c + 1, {q})
  IN  IF j > Len(s) \/ s[j] \notin Space
           \/ ~MatchLit(s, j + 1, <<"s","t","y","l","e">>)
        THEN [ok |-> FALSE]
      ELSE IF a > Len(s) \/ s[a] # "=" THEN [ok |-> FALSE]
      ELSE IF c > Len(s) \/ s[c] # q THEN [ok |-> FALSE]
      ELSE IF e > Len(s) THEN [ok |-> FALSE]
      ELSE [ok |-> TRUE, pre |-> j - 1, from |-> c + 1, to |-> e - 1,
            end |-> e + 1]

\* _STYLE_ATTR_RE_GENERIC (q = ") and _STYLE_ATTR_RE_GENERIC_SINGLE
\* (q = '):  (<[^>]*?)\sstyle\s*=\s*(q)([^q]*)(q).  The lazy [^>]*? takes
\* as few characters as it can, never a >, for the tail to match.
_STYLE_ATTR_RE_GENERIC(s, i, q) ==
  LET ends == {j \in (i + 1)..Len(s) :
                 /\ StyleTail(s, j, q).ok
                 /\ \A k \in (i + 1)..(j - 1) : s[k] # ">"}
  IN  IF s[i] # "<" \/ ends = {} THEN [ok |-> FALSE]
      ELSE StyleTail(s, Least(ends), q)

\* the replacement function of _sanitize_table_dimensions
_strip_style_dims(pre_tag, quote, style_content) ==
  LET dims == SubStyleDim(style_content,
                {j \in 1..Len(style_content) :
                   _STYLE_DIM_RE_INTERNAL(style_content, j) # 0}, 1)
      semi == SubDoubleSemicolon(dims,
                {j \in 1..Len(dims) : DoubleSemicolonEnd(dims, j) # 0}, 1)
      new_style_content == Strip(CollapseSpaces(semi))
  IN  pre_tag \o <<" ","s","t","y","l","e","=">> \o <<quote>>
        \o new_style_content \o <<quote>>

\* _STYLE_ATTR_RE_GENERIC[_SINGLE].sub(_strip_style_dims, sanitized)
RECURSIVE SubStyleAttr(_, _, _, _)
SubStyleAttr(s, starts, i, q) ==
  LET p == FirstFrom(starts, i)
      m == _STYLE_ATTR_RE_GENERIC(s, p, q)
  IN  IF p = 0 THEN SubSeq(s, i, Len(s))
      ELSE SubSeq(s, i, p - 1)
             \o _strip_style_dims(SubSeq(s, p, m.pre), q,
                                  SubSeq(s, m.from, m.to))
             \o SubStyleAttr(s, starts, m.end, q)

StripStyleAttrs(s, q) ==
  SubStyleAttr(s, {j \in 1..Len(s) : _STYLE_ATTR_RE_GENERIC(s, j, q).ok},
               1, q)

_sanitize_table_dimensions(html) ==
  IF html = <<>> THEN html
  ELSE LET attrs   == SubAttrDim(html,
                        {j \in 1..Len(html) : _ATTR_DIM_RE(html, j) # 0}, 1)
           doubles == StripStyleAttrs(attrs, DQ)
           singles == StripStyleAttrs(doubles, SQ)
       IN  CollapseSpaces(singles)

\* _STYLE_ATTR_RE (q = ") and the inline pattern of line 53 (q = '):
\*   (<(?:td|th|tr|table)[^>]*?)\sstyle\s*=\s*q(?:[^q]*)q([^>]*>)
TableTagEnd(s, i) ==
  IF MatchLit(s, i, <<"<","t","d">>) \/ MatchLit(s, i, <<"<","t","h">>)
       \/ MatchLit(s, i, <<"<","t","r">>) THEN i + 3
  ELSE IF MatchLit(s, i, <<"<","t","a","b","l","e">>) THEN i + 6
  ELSE 0

\* the tail of _STYLE_ATTR_RE at j: the style attribute, then [^>]*>
TableTail(s, j, q) ==
  LET m == StyleTail(s, j, q)
      g == SkipUntil(s, m.end, {">"})
  IN  IF m.ok /\ g <= Len(s)
      THEN [ok |-> TRUE, pre |-> m.pre, rest |-> m.end, end |-> g + 1]
      ELSE [ok |-> FALSE]

_STYLE_ATTR_RE(s, i, q) ==
  LET t == TableTagEnd(s, i)
      ends == {j \in t..Len(s) :
                 /\ TableTail(s, j, q).ok
                 /\ \A k \in t..(j - 1) : s[k] # ">"}
  IN  IF t = 0 \/ ends = {} THEN [ok |-> FALSE]
      ELSE TableTail(s, Least(ends), q)

\* pattern.sub(r'\1\2', html)
RECURSIVE SubTableStyle(_, _, _, _)
SubTableStyle(s, starts, i, q) ==
  LET p == FirstFrom(starts, i)
      m == _STYLE_ATTR_RE(s, p, q)
  IN  IF p = 0 THEN SubSeq(s, i, Len(s))
      ELSE SubSeq(s, i, p - 1)
             \o SubSeq(s, p, m.pre) \o SubSeq(s, m.rest, m.end - 1)
             \o SubTableStyle(s, starts, m.end, q)

RemoveTableStyles(s, q) ==
  SubTableStyle(s, {j \in 1..Len(s) : _STYLE_ATTR_RE(s, j, q).ok}, 1, q)

_remove_table_styles_completely(html) ==
  IF html = <<>> THEN html
  ELSE RemoveTableStyles(RemoveTableStyles(html, DQ), SQ)

(***************************************************************************)
(* Rendered documents: what template.render(dados) may return.             *)
(***************************************************************************)
\* a rendered cell with dimensions in its style and as an attribute
HtmlStyledCell ==
  <<"<","t","d"," ","s","t","y","l","e","=","\"","h","e","i","g","h","t",
    ":","1","0","p","x",";","c","o","l","o","r",":","r","e","d","\""," ",
    "w","i","d","t","h","=","\"","2","0","\"",">","x","<","/","t","d",">">>

\* a rendered document with nothing to sanitize
HtmlPlain ==
  <<"<","p",">","x","<","/","p",">">>

\* a rendered document whose template carries a print-colour rule itself
HtmlWithPrintRule ==
  <<"<","s","t","y","l","e",">","*","{","p","r","i","n","t","-","c","o","l",
    "o","r","-","a","d","j","u","s","t",":","e","x","a","c","t","}","<","/",
    "s","t","y","l","e",">","<","t","d"," ","s","t","y","l","e","=","\"",
    "w","i","d","t","h",":","2","0","p","x","\"",">","x","<","/","t","d",
    ">">>

\* the declaration that keeps background colours in print
PrintColorRule ==
  <<"p","r","i","n","t","-","c","o","l","o","r","-","a","d","j","u","s","t",
    ":","e","x","a","c","t">>

RenderedHtmls == {HtmlStyledCell, HtmlPlain, HtmlWithPrintRule, <<>>}

\* sub occurs in s as a contiguous run of characters
Contains(s, sub) ==
  \E i \in 1..(Len(s) + 1) :
    /\ i + Len(sub) - 1 <= Len(s)
    /\ SubSeq(s, i, i + Len(sub) - 1) = sub

(***************************************************************************)
(* State of one call of criar_pdf_em_memoria and of the sanitizer runs.    *)
(***************************************************************************)
VARIABLES
  pc,               \* position inside criar_pdf_em_memoria
  template_found,   \* env.get_template finds template_rel_path
  missing_field,    \* how the template uses a field that dados lacks
  dados_html,       \* the text template.render(dados) yields when it returns
  html_renderizado,
  html_sanitizado,
  html_fallback,
  result_buffer,    \* io.BytesIO of the first attempt
  fallback_buffer,  \* io.BytesIO of the second attempt
  backend_calls,    \* the pisa.CreatePDF calls made so far, in order
  retval,           \* what the call returned
  propagated,       \* the exception that left the call, "none" if none did
  st_log,           \* st.error / st.warning / st.info messages, in order
  san_pc,           \* position of the sanitizer run
  san_html,         \* input of the sanitizer run
  san_light,        \* _sanitize_table_dimensions(san_html)
  san_twice,        \* _sanitize_table_dimensions(san_light)
  san_aggr          \* _remove_table_styles_completely(san_html)

pdfvars ==
  <<pc, template_found, missing_field, dados_html, html_renderizado,
    html_sanitizado, html_fallback, result_buffer, fallback_buffer,
    backend_calls, retval, propagated, st_log>>

sanvars == <<san_pc, san_html, san_light, san_twice, san_aggr>>

\* one call of find_logo_path_from_hint (src/app.py)
VARIABLES
  logo_pc,          \* position of the call
  logo_files,       \* the paths that exist on the file system
  logo_key,         \* argument empresa_key
  logo_hint,        \* argument hint
  logo_found        \* what the call returned

logovars == <<logo_pc, logo_files, logo_key, logo_hint, logo_found>>

\* one browser session of src/app.py: st.session_state, the widget values
\* that outlive a script run, and what the run under way has produced
VARIABLES
  run_pc,           \* position of the script run: "idle" between two runs
  event,            \* the widget whose change started the run
  itens,            \* st.session_state.itens
  editing_item,     \* st.session_state.editing_item
  editing_obj,      \* the item object on which 'Editar' was pressed
  impostos_ipi,     \* value of the number input "IPI (%)"
  dados,            \* the record the handler built in this run, if any
  criar_pdf_calls,  \* the records passed to criar_pdf in this run
  gerar_outcome     \* how the 'Gerar PDF do Orçamento' handler ended

sessvars ==
  <<run_pc, event, itens, editing_item, editing_obj, impostos_ipi, dados,
    criar_pdf_calls, gerar_outcome>>

\* the totals computation of the handler, as a function of its inputs
VARIABLES
  tot_pc,           \* position of the computation
  tot_itens,        \* st.session_state.itens
  tot_ipi,          \* impostos_ipi
  tot_parcelas,     \* pagamento_qtde_parcelas
  tot_out           \* the totals and the instalment value

totvars == <<tot_pc, tot_itens, tot_ipi, tot_parcelas, tot_out>>

\* the client and product stores: the worksheets "Clientes" and "Produtos",
\* their caches in st.session_state, and the table clientes of clientes.db
VARIABLES
  store_pc,         \* position of the script run: "idle" between two runs
  store_event,      \* the widget whose change started the run, with its data
  page_rendered,    \* a run of this session has rendered the page
  sheet_clientes,   \* data rows of the worksheet "Clientes"
  sheet_produtos,   \* data rows of the worksheet "Produtos"
  clientes_cache,   \* st.session_state['clientes_cache']
  produtos_cache,   \* st.session_state['produtos_cache']
  sheet_reads,      \* the calls of carregar_aba made so far, per worksheet
  first_load,       \* what the first carregar_aba returned, per worksheet
  session_added,    \* the records of this session's successful adds
  add_ret,          \* what the latest add_client / add_product returned
  dados_cliente,    \* st.session_state.dados_cliente
  cliente_id,       \* st.session_state.cliente_id
  db_clientes,      \* rows of the table clientes
  db_ret            \* what the latest database.add_client returned

storevars ==
  <<store_pc, store_event, page_rendered, sheet_clientes, sheet_produtos,
    clientes_cache, produtos_cache, sheet_reads, first_load, session_added,
    add_ret, dados_cliente, cliente_id, db_clientes, db_ret>>

\* add_client / add_product of several sessions on one spreadsheet
VARIABLES
  race_pc,          \* per session: the position of its call
  race_call,        \* per session: the locals of its call
  race_calls        \* the calls made so far

racevars == <<race_pc, race_call, race_calls>>

appvars == <<logovars, sessvars, totvars, storevars, racevars>>

vars == <<pdfvars, sanvars, appvars>>

\* the return values: None, or the bytes of a buffer
None == [kind |-> "None", data |-> <<>>]

Bytes(buffer) == [kind |-> "bytes", data |-> buffer]

NotReturned == [kind |-> "pending", data |-> <<>>]

\* a field of dados the template needs: present, absent and only printed
\* ({{ x }}), or absent and dereferenced ({{ x.y }})
MissingKinds == {"none", "printed", "attribute_of"}

\* Environment(loader=..., autoescape=False) keeps jinja2's default
\* Undefined: printing an absent field gives empty text, reading an
\* attribute of it raises UndefinedError
RenderRaises(missing) == missing = "attribute_of"

\* what pisa.CreatePDF reports: no error, pisa_status.err, or an exception
BackendOutcomes == {"ok", "err", "exc"}

\* the bytes a backend writes for a whole document, marked with the attempt
PdfDocument(attempt) ==
  <<[by |-> attempt, part |-> "%PDF"], [by |-> attempt, part |-> "body"],
    [by |-> attempt, part |-> "%%EOF"]>>

Min(a, b) == IF a < b THEN a ELSE b

\* pisa.CreatePDF(src, dest): dest after the call; a failing call has written
\* the first n bytes of its document
CreatePDF(attempt, dest, outcome, n) ==
  IF outcome = "ok" THEN dest \o PdfDocument(attempt)
  ELSE dest \o SubSeq(PdfDocument(attempt), 1,
                      Min(n, Len(PdfDocument(attempt))))

Msg(level, text, carries) ==
  [level |-> level, text |-> text, carries |-> carries]

PdfIdle ==
  /\ pc = "idle"
  /\ template_found = TRUE
  /\ missing_field = "none"
  /\ dados_html = <<>>
  /\ html_renderizado = <<>>
  /\ html_sanitizado = <<>>
  /\ html_fallback = <<>>
  /\ result_buffer = <<>>
  /\ fallback_buffer = <<>>
  /\ backend_calls = <<>>
  /\ retval = NotReturned
  /\ propagated = "none"
  /\ st_log = <<>>

SanIdle ==
  /\ san_pc = "idle"
  /\ san_html = <<>>
  /\ san_light = <<>>
  /\ san_twice = <<>>
  /\ san_aggr = <<>>

\* Python's None where a path is expected
NoPath == [dir |-> "None", name |-> [stem |-> "", suffix |-> ""]]

\* a falsy hint: None or the empty string
NoHint == [dir |-> "", name |-> [stem |-> "", suffix |-> ""]]

LogoIdle ==
  /\ logo_pc = "idle"
  /\ logo_files = {}
  /\ logo_key = ""
  /\ logo_hint = NoHint
  /\ logo_found = NoPath

\* Python's None where a list index is expected, and an index
NoIndex == [some |-> FALSE, idx |-> 0]

Index(i) == [some |-> TRUE, idx |-> i]

SessIdle ==
  /\ run_pc = "idle"
  /\ event = "none"
  /\ itens = <<>>
  /\ editing_item = NoIndex
  /\ editing_obj = 0
  /\ impostos_ipi = 0
  /\ dados = <<>>
  /\ criar_pdf_calls = <<>>
  /\ gerar_outcome = "none"

TotIdle ==
  /\ tot_pc = "idle"
  /\ tot_itens = <<>>
  /\ tot_ipi = 0
  /\ tot_parcelas = 1
  /\ tot_out = <<>>

\* a cache key that is absent from st.session_state or holds None, and a
\* cached list
NoCache == [set |-> FALSE, list |-> <<>>]

Cache(list) == [set |-> TRUE, list |-> list]

\* a function that has not returned yet
NoReturn == [fn |-> "none", ok |-> FALSE]

\* Python's None where a record is expected
NoRecord == [id |-> [py |-> "NoneType", v |-> 0], key |-> "", nome |-> ""]

StoreIdle ==
  /\ store_pc = "idle"
  /\ store_event = [widget |-> "none", data |-> NoRecord]
  /\ page_rendered = FALSE
  /\ sheet_clientes = <<>>
  /\ sheet_produtos = <<>>
  /\ clientes_cache = NoCache
  /\ produtos_cache = NoCache
  /\ sheet_reads = [Clientes |-> 0, Produtos |-> 0]
  /\ first_load = [Clientes |-> NoCache, Produtos |-> NoCache]
  /\ session_added = [Clientes |-> <<>>, Produtos |-> <<>>]
  /\ add_ret = NoReturn
  /\ dados_cliente = NoRecord
  /\ cliente_id = NoRecord.id
  /\ db_clientes = <<>>
  /\ db_ret = NoReturn

\* the browser sessions that share the spreadsheet
Sessions == {"s1", "s2"}

\* the locals of add_client before the call
NoCall ==
  [aba |-> "none", data |-> NoRecord, keys |-> <<>>, next_id |-> 0,
   ret |-> "none"]

RaceIdle ==
  /\ race_pc = [s \in Sessions |-> "idle"]
  /\ race_call = [s \in Sessions |-> NoCall]
  /\ race_calls = 0

AppIdle == LogoIdle /\ SessIdle /\ TotIdle /\ StoreIdle /\ RaceIdle

Init == PdfIdle /\ SanIdle /\ AppIdle

\* criar_pdf_em_memoria(dados, template_path) is called
Call ==
  /\ pc \in {"idle", "returned"}
  /\ \E f \in BOOLEAN, m \in MissingKinds, h \in RenderedHtmls :
       /\ template_found' = f
       /\ missing_field' = m
       /\ dados_html' = h
  /\ pc' = "get_template"
  /\ html_renderizado' = <<>>
  /\ html_sanitizado' = <<>>
  /\ html_fallback' = <<>>
  /\ result_buffer' = <<>>
  /\ fallback_buffer' = <<>>
  /\ backend_calls' = <<>>
  /\ retval' = NotReturned
  /\ propagated' = "none"
  /\ st_log' = <<>>
  /\ UNCHANGED <<sanvars, appvars>>

\* a plausible slip: the lookup failure does not end the call
AfterLookupNoReturn(found) == "render"

\* where the call goes after env.get_template
AfterLookup(found) == IF found THEN "render" ELSE "returned"

\* lines 72-79: env.get_template, except TemplateNotFound
GetTemplate ==
  /\ pc = "get_template"
  /\ pc' = AfterLookup(template_found)
  /\ IF template_found
       THEN UNCHANGED <<st_log, retval>>
       ELSE /\ st_log' = Append(st_log,
                 Msg("error", "template_not_found",
                     {"template_name", "script_dir"}))
            /\ retval' = None
  /\ UNCHANGED <<template_found, missing_field, dados_html, html_renderizado,
                 html_sanitizado, html_fallback, result_buffer,
                 fallback_buffer, backend_calls, propagated>>
  /\ UNCHANGED <<sanvars, appvars>>

\* a plausible slip: the exception of template.render is swallowed
AfterRenderNoReturn(missing) == "sanitize"

\* where the call goes after template.render
AfterRender(missing) == IF RenderRaises(missing) THEN "returned" ELSE "sanitize"

\* a plausible slip: the outer handler lets the exception go on to the caller
OuterExceptReraises(exception) ==
  [propagated |-> exception, retval |-> NotReturned, log |-> <<>>]

\* lines 136-139: except Exception reports the exception and returns None
OuterExcept(exception) ==
  [propagated |-> "none", retval |-> None,
   log |-> <<Msg("error", "unexpected_exception", {"underlying_error"})>>]

\* line 82: template.render(dados); its exception reaches lines 136-139
Render ==
  /\ pc = "render"
  /\ pc' = AfterRender(missing_field)
  /\ IF RenderRaises(missing_field)
       THEN /\ st_log' = st_log \o OuterExcept("UndefinedError").log
            /\ retval' = OuterExcept("UndefinedError").retval
            /\ propagated' = OuterExcept("UndefinedError").propagated
            /\ UNCHANGED html_renderizado
       ELSE /\ html_renderizado' = dados_html
            /\ UNCHANGED <<st_log, retval, propagated>>
  /\ UNCHANGED <<template_found, missing_field, dados_html, html_sanitizado,
                 html_fallback, result_buffer, fallback_buffer,
                 backend_calls>>
  /\ UNCHANGED <<sanvars, appvars>>

\* lines 90-93: the light pass and the buffer of the first attempt
Sanitize ==
  /\ pc = "sanitize"
  /\ html_sanitizado' = _sanitize_table_dimensions(html_renderizado)
  /\ result_buffer' = <<>>
  /\ pc' = "primary"
  /\ UNCHANGED <<template_found, missing_field, dados_html, html_renderizado,
                 html_fallback, fallback_buffer, backend_calls, retval,
                 propagated, st_log>>
  /\ UNCHANGED <<sanvars, appvars>>

\* lines 102-109: pisa_status.err raises, and any exception of the first
\* attempt lands in the except block
PrimaryFailed(outcome) == outcome # "ok"

\* lines 96-110: the first attempt, on the lightly sanitized HTML
PrimaryAttempt ==
  /\ pc = "primary"
  /\ \E o \in BackendOutcomes, n \in 0..MaxPartial :
       /\ result_buffer' = CreatePDF("primary", result_buffer, o, n)
       /\ backend_calls' = Append(backend_calls,
            [attempt |-> "primary", src |-> html_sanitizado,
             dest |-> "result_buffer", outcome |-> o])
       /\ IF PrimaryFailed(o)
            THEN /\ pc' = "fallback"
                 /\ st_log' = st_log
                      \o (IF o = "err"
                            THEN <<Msg("warning", "first_attempt_err",
                                       {"pisa_err"})>>
                            ELSE <<>>)
                      \o <<Msg("warning", "first_attempt_failed",
                               {"underlying_error"})>>
                 /\ UNCHANGED retval
            ELSE /\ pc' = "returned"
                 /\ retval' = Bytes(result_buffer')
                 /\ UNCHANGED st_log
  /\ UNCHANGED <<template_found, missing_field, dados_html, html_renderizado,
                 html_sanitizado, html_fallback, fallback_buffer, propagated>>
  /\ UNCHANGED <<sanvars, appvars>>

\* a plausible slip: the aggressive pass applied to the sanitized HTML
FallbackHtmlFromSanitized(rendered, sanitized) ==
  _remove_table_styles_completely(sanitized)

\* line 113: the aggressive pass reads html_renderizado
FallbackHtml(rendered, sanitized) == _remove_table_styles_completely(rendered)

\* a plausible slip: the second attempt writes into the first buffer
FallbackDestReused(first_buffer) == first_buffer

\* line 116: fallback_buffer = io.BytesIO(), whatever result_buffer holds
FallbackDest(first_buffer) == <<>>

\* a plausible slip: the fallback's status is not looked at
FallbackReturnUnchecked(outcome, buffer) == Bytes(buffer)

\* lines 123-134: the value returned after the second attempt
FallbackReturn(outcome, buffer) ==
  IF outcome = "ok" THEN Bytes(buffer) ELSE None

\* lines 123-132: the message shown after the second attempt
FallbackMessage(outcome) ==
  IF outcome = "ok" THEN Msg("info", "fallback_ok", {})
  ELSE IF outcome = "err" THEN Msg("error", "fallback_err", {"pisa_err"})
  ELSE Msg("error", "fallback_exception", {"underlying_error"})

\* lines 112-134: the second attempt, inside the except block of the first
FallbackAttempt ==
  /\ pc = "fallback"
  /\ html_fallback' = FallbackHtml(html_renderizado, html_sanitizado)
  /\ \E o \in BackendOutcomes, n \in 0..MaxPartial :
       /\ fallback_buffer' =
            CreatePDF("fallback", FallbackDest(result_buffer), o, n)
       /\ backend_calls' = Append(backend_calls,
            [attempt |-> "fallback", src |-> html_fallback',
             dest |-> "fallback_buffer", outcome |-> o])
       /\ retval' = FallbackReturn(o, fallback_buffer')
       /\ st_log' = Append(st_log, FallbackMessage(o))
  /\ pc' = "returned"
  /\ UNCHANGED <<template_found, missing_field, dados_html, html_renderizado,
                 html_sanitizado, result_buffer, propagated>>
  /\ UNCHANGED <<sanvars, appvars>>

Next ==
  \/ Call
  \/ GetTemplate
  \/ Render
  \/ Sanitize
  \/ PrimaryAttempt
  \/ FallbackAttempt

Spec == Init /\ [][Next]_vars

\* the positions of a call
Positions ==
  {"idle", "get_template", "render", "sanitize", "primary", "fallback",
   "returned"}

\* a call that has begun moves on: the body is straight-line code without
\* waits, and each of its steps leaves the position it is at
Advance ==
  /\ pc \notin {"idle", "returned"}
  /\ pc' \in Positions \ {pc}

FairSpec == Spec /\ WF_pc(Advance)

(***************************************************************************)
(* Inputs of the sanitizer runs: one element, built from a tag name, a     *)
(* list of attributes and, inside a style attribute, a list of             *)
(* declarations joined by semicolons.                                      *)
(***************************************************************************)
DeclHeight ==
  <<"h","e","i","g","h","t",":","1","0","p","x">>

DeclWidth ==
  <<"w","i","d","t","h",":","2","0","p","x">>

DeclColor ==
  <<"c","o","l","o","r",":","r","e","d">>

DeclLineHeight ==
  <<"l","i","n","e","-","h","e","i","g","h","t",":","3">>

AttrHeight ==
  <<" ","h","e","i","g","h","t","=","\"","1","0","\"">>

AttrWidth ==
  <<" ","w","i","d","t","h","=","'","2","0","'">>

AttrSpacedStyle ==
  <<" "," ","s","t","y","l","e"," ","="," ","'","w","i","d","t","h",":","2",
    "0","p","x","'">>

AttrUpperStyle ==
  <<"\n","S","T","Y","L","E","=","\"","W","i","d","t","h"," ",":"," ","3",
    " ",";","x","\"">>

AttrTitleGt ==
  <<" ","t","i","t","l","e","=","\"",">","\"">>

StyleEquals ==
  <<" ","s","t","y","l","e","=">>

\* an empty declaration stands for two semicolons in a row
Decls == {DeclHeight, DeclWidth, DeclColor, DeclLineHeight, <<>>}

\* the sequences over S of length at most n
SeqsUpTo(S, n) == UNION {[1..k -> S] : k \in 0..n}

RECURSIVE JoinDecls(_)
JoinDecls(ds) ==
  IF ds = <<>> THEN <<>>
  ELSE IF Len(ds) = 1 THEN ds[1]
  ELSE ds[1] \o <<";">> \o JoinDecls(Tail(ds))

RECURSIVE Concat(_)
Concat(parts) ==
  IF parts = <<>> THEN <<>> ELSE parts[1] \o Concat(Tail(parts))

StyleAttr(q, value) == StyleEquals \o <<q>> \o value \o <<q>>

StyledCell(q, ds) ==
  <<"<","t","d">> \o StyleAttr(q, JoinDecls(ds)) \o <<">">>

\* a td whose style holds up to MaxDecls declarations, in either quote
StyledCells ==
  {StyledCell(q, ds) : q \in {DQ, SQ}, ds \in SeqsUpTo(Decls, MaxDecls)}

TagNames == {<<"t","d">>, <<"t","h","e","a","d">>, <<"d","i","v">>}

Attrs ==
  {AttrHeight, AttrWidth, AttrSpacedStyle, AttrUpperStyle, AttrTitleGt,
   StyleAttr(DQ, DeclHeight), StyleAttr(DQ, DeclColor)}

Element(tag, as) == <<"<">> \o tag \o Concat(as) \o <<">">>

\* an element of any tag name with up to MaxAttrs attributes
Elements ==
  {Element(tag, as) : tag \in TagNames, as \in SeqsUpTo(Attrs, MaxAttrs)}

SanInputs == StyledCells \cup Elements

SanInit ==
  /\ PdfIdle
  /\ AppIdle
  /\ san_pc = "input"
  /\ san_html \in SanInputs
  /\ san_light = <<>>
  /\ san_twice = <<>>
  /\ san_aggr = <<>>

\* _sanitize_table_dimensions(html)
LightPass ==
  /\ san_pc = "input"
  /\ san_light' = _sanitize_table_dimensions(san_html)
  /\ san_pc' = "light"
  /\ UNCHANGED <<san_html, san_twice, san_aggr>>
  /\ UNCHANGED <<pdfvars, appvars>>

\* _sanitize_table_dimensions applied to its own output
LightPassAgain ==
  /\ san_pc = "light"
  /\ san_twice' = _sanitize_table_dimensions(san_light)
  /\ san_pc' = "twice"
  /\ UNCHANGED <<san_html, san_light, san_aggr>>
  /\ UNCHANGED <<pdfvars, appvars>>

\* _remove_table_styles_completely(html)
AggressivePass ==
  /\ san_pc = "input"
  /\ san_aggr' = _remove_table_styles_completely(san_html)
  /\ san_pc' = "aggressive"
  /\ UNCHANGED <<san_html, san_light, san_twice>>
  /\ UNCHANGED <<pdfvars, appvars>>

SanNext ==
  \/ LightPass
  \/ LightPassAgain
  \/ AggressivePass

SanSpec == SanInit /\ [][SanNext]_vars

(***************************************************************************)
(* The asset resolver of src/app.py.  A path is a directory and a file     *)
(* name; a file name is a stem and a suffix.  The file system is the set   *)
(* of paths that exist.                                                    *)
(***************************************************************************)
MaxFiles == 2

FileName(stem, suffix) == [stem |-> stem, suffix |-> suffix]

PathOf(dir, name) == [dir |-> dir, name |-> name]

\* the keys of EMPRESAS
EmpresaKeys == {"ISOFORMA", "PLASTY"}

\* str.lower() on the keys of EMPRESAS
KeyLower(key) ==
  IF key = "ISOFORMA" THEN "isoforma"
  ELSE IF key = "PLASTY" THEN "plasty"
  ELSE key

\* search_dirs, in the order of the list
SearchDirs ==
  <<"__file__.parent", "__file__.parent/assets", "cwd", "cwd/assets",
    "/workspaces/orcamentotransplas", "/mount/src/orcamentotransplas">>

\* the directory part of a hint: none (a bare file name), a relative
\* directory, one of search_dirs written out, a directory outside search_dirs
HintDirs == {"", "imagens", "/workspaces/orcamentotransplas", "/opt/logos"}

\* Path.is_absolute()
IsAbsolute(dir) == dir \in {"/workspaces/orcamentotransplas",
                            "/mount/src/orcamentotransplas", "/opt/logos"}

\* nome_base = f"logo_{empresa_key.lower()}"
NomeBase(key) == "logo_" \o KeyLower(key)

HintNames ==
  {FileName("marca", ".png")}
    \cup {FileName(NomeBase(k), ".png") : k \in EmpresaKeys}

Hints == {NoHint} \cup {PathOf(d, n) : d \in HintDirs, n \in HintNames}

\* the names a logo file may bear
LogoNames ==
  HintNames \cup {FileName(NomeBase(k), ".jpg") : k \in EmpresaKeys}

Range(seq) == {seq[k] : k \in 1..Len(seq)}

\* the paths a file may be at
LogoPaths ==
  {PathOf(d, n) : d \in Range(SearchDirs) \cup {"/opt/logos"}, n \in LogoNames}

\* the subsets of S with at most n elements
RECURSIVE SubsetsUpTo(_, _)
SubsetsUpTo(S, n) ==
  IF n = 0 THEN {{}}
  ELSE LET smaller == SubsetsUpTo(S, n - 1)
       IN smaller \cup {F \cup {x} : F \in smaller, x \in S}

\* bool(hint)
Truthy(hint) == hint # NoHint

\* lines 83-92: the hint's file name, then the two conventional names
NamesBeforeDedup(key, hint) ==
  (IF Truthy(hint) /\ hint.name.stem # "" THEN <<hint.name>> ELSE <<>>)
    \o <<FileName(NomeBase(key), ".png"), FileName(NomeBase(key), ".jpg")>>

\* lines 95-96: duplicates removed, the first occurrence kept
Dedup(names) ==
  SelectSeq([k \in 1..Len(names) |->
               IF \E j \in 1..(k - 1) : names[j] = names[k]
                 THEN FileName("", "") ELSE names[k]],
            LAMBDA n : n # FileName("", ""))

\* a plausible slip: the conventional names ahead of the hint's name
BaseNamesConventionalFirst(key, hint) ==
  Dedup(<<FileName(NomeBase(key), ".png"), FileName(NomeBase(key), ".jpg")>>
          \o (IF Truthy(hint) /\ hint.name.stem # "" THEN <<hint.name>>
              ELSE <<>>))

\* lines 81-96: base_names
BaseNames(key, hint) == Dedup(NamesBeforeDedup(key, hint))

\* lines 116-120: the candidates in the order the two loops visit them
Candidates(names) ==
  [k \in 1..(Len(SearchDirs) * Len(names)) |->
     PathOf(SearchDirs[((k - 1) \div Len(names)) + 1],
            names[((k - 1) % Len(names)) + 1])]

\* lines 74-121
find_logo_path_from_hint(files, empresa_key, hint) ==
  LET cands == Candidates(BaseNames(empresa_key, hint))
      hits == {k \in 1..Len(cands) : cands[k] \in files}
  IN IF Truthy(hint) /\ IsAbsolute(hint.dir) /\ hint \in files THEN hint
     ELSE IF hits = {} THEN NoPath
     ELSE cands[CHOOSE k \in hits : \A j \in hits : k <= j]

LogoInit ==
  /\ PdfIdle
  /\ SanIdle
  /\ RaceIdle
  /\ StoreIdle
  /\ SessIdle
  /\ TotIdle
  /\ logo_pc = "called"
  /\ logo_files \in SubsetsUpTo(LogoPaths, MaxFiles)
  /\ logo_key \in EmpresaKeys
  /\ logo_hint \in Hints
  /\ logo_found = NoPath

\* the call returns
FindLogo ==
  /\ logo_pc = "called"
  /\ logo_found' = find_logo_path_from_hint(logo_files, logo_key, logo_hint)
  /\ logo_pc' = "returned"
  /\ UNCHANGED <<logo_files, logo_key, logo_hint>>
  /\ UNCHANGED <<pdfvars, sanvars, sessvars, totvars, storevars,
                 racevars>>

LogoNext == FindLogo

LogoSpec == LogoInit /\ [][LogoNext]_vars

(***************************************************************************)
(* The line items and the totals of the 'Gerar PDF do Orçamento' handler.  *)
(* Quantities are in kg, prices in R$, rates in percent.  The handler      *)
(* computes in binary floating point; the model computes the same          *)
(* expressions exactly, a quotient being kept as numerator and             *)
(* denominator.                                                            *)
(***************************************************************************)
MaxItens == 2

MaxParcelas == 2

\* the dict appended by the add_item_form handler; filme, cor_codigo,
\* acabamento and medida are text fields handled like descricao; obj is the
\* identity of the dict object
Item(obj, descricao, quantidade_kg, valor_kg, ipi_item) ==
  [obj |-> obj, descricao |-> descricao, quantidade_kg |-> quantidade_kg,
   valor_kg |-> valor_kg, ipi_item |-> ipi_item]

\* values of the number inputs "Qtd (KG)" and "Valor (KG)": min_value keeps
\* them above zero
Quantidades == {1, 50}

Valores == {1, 20}

\* values of the number input "IPI (%)": min_value=0.0
IpiPercs == {0, 5}

Frac(num, den) == [num |-> num, den |-> den]

\* line 645: sum(quantidade_kg * valor_kg for item in itens)
RECURSIVE valor_mercadoria(_)
valor_mercadoria(items) ==
  IF items = <<>> THEN 0
  ELSE Head(items).quantidade_kg * Head(items).valor_kg
         + valor_mercadoria(Tail(items))

\* line 650: the divisor of ipi_percent / 100.0
PercentBase == 100

\* a plausible slip: the rate applied without the division by 100
ValorIpiUndivided(mercadoria, ipi_percent) == Frac(mercadoria * ipi_percent, 1)

\* line 650: valor_mercadoria * (ipi_percent / 100.0)
valor_ipi(mercadoria, ipi_percent) ==
  Frac(mercadoria * ipi_percent, PercentBase)

\* line 651: valor_mercadoria + valor_ipi
total_nf(mercadoria, ipi) == Frac(mercadoria * ipi.den + ipi.num, ipi.den)

\* line 652: total_nf / qtde_parcelas_int if qtde_parcelas_int > 0 else 0
valor_parcela(total, qtde_parcelas) ==
  IF qtde_parcelas > 0 THEN Frac(total.num, total.den * qtde_parcelas)
  ELSE Frac(0, 1)

\* line 683: sum(quantidade_kg for item in itens)
RECURSIVE total_kg(_)
total_kg(items) ==
  IF items = <<>> THEN 0
  ELSE Head(items).quantidade_kg + total_kg(Tail(items))

\* lines 645-652 and 679-684: dados['totais'] and pagamento.valor_parcela
Totais(items, ipi_percent, qtde_parcelas) ==
  LET mercadoria == valor_mercadoria(items)
      ipi == valor_ipi(mercadoria, ipi_percent)
      total == total_nf(mercadoria, ipi)
  IN [valor_mercadoria |-> mercadoria, ipi_perc |-> ipi_percent,
      valor_ipi |-> ipi, total_nf |-> total, total_kg |-> total_kg(items),
      qtde_parcelas |-> qtde_parcelas,
      valor_parcela |-> valor_parcela(total, qtde_parcelas)]

\* the item lists the totals are computed for
TotItens ==
  SeqsUpTo({Item(1, "Chapa PSAI Tricamada", q, v, 0) :
              q \in Quantidades, v \in Valores}, MaxItens)

TotInit ==
  /\ PdfIdle
  /\ SanIdle
  /\ RaceIdle
  /\ StoreIdle
  /\ LogoIdle
  /\ SessIdle
  /\ tot_pc = "inputs"
  /\ tot_itens \in TotItens
  /\ tot_ipi \in IpiPercs
  /\ tot_parcelas \in 1..MaxParcelas
  /\ tot_out = <<>>

\* lines 645-652 and 683
ComputeTotais ==
  /\ tot_pc = "inputs"
  /\ tot_out' = <<Totais(tot_itens, tot_ipi, tot_parcelas)>>
  /\ tot_pc' = "done"
  /\ UNCHANGED <<tot_itens, tot_ipi, tot_parcelas>>
  /\ UNCHANGED <<pdfvars, sanvars, logovars, sessvars, storevars,
                 racevars>>

TotNext == ComputeTotais

TotSpec == TotInit /\ [][TotNext]_vars

(***************************************************************************)
(* The item column and the 'Gerar PDF do Orçamento' handler of src/app.py. *)
(* Streamlit runs the script from the top on every widget change: a run    *)
(* begins with the widget that changed, passes the editing-index check of  *)
(* lines 525-531 and then executes the handler of that widget.  The model  *)
(* lets the pressed widget be any widget the run renders.                  *)
(***************************************************************************)
\* values of the text inputs "Descrição" and "Razão Social"
Descricoes == {"", "Chapa PSAI Tricamada"}

RazoesSociais == {"", "ACME LTDA"}

\* what the user types into "Qtd (KG)" and "Valor (KG)" of the two item forms
FormQuantidades == {50}

FormValores == {20}

\* what the user sets "Quantidade de Parcelas" to: 1 and the default
FormParcelas == {1, 3}

\* the widgets whose change starts a run; "ipi" is the number input
\* "IPI (%)", which has no handler
Events ==
  {"ipi", "salvar", "cancelar", "adicionar", "remover", "editar", "limpar",
   "gerar"}

\* lines 525-531: an index that itens[editing_idx] rejects becomes None
EditCheck(editing, items) ==
  IF editing.some /\ editing.idx >= Len(items) THEN NoIndex ELSE editing

\* lines 533-534: the edit form is rendered for an item that exists
FormRendered(editing, items) == editing.some /\ editing.idx < Len(items)

\* the widget is part of the page this run renders
Rendered(e, editing, items) ==
  IF e \in {"salvar", "cancelar"} THEN FormRendered(editing, items)
  ELSE IF e \in {"remover", "editar", "limpar"} THEN items # <<>>
  ELSE IF e = "adicionar" THEN Len(items) < MaxItens
  ELSE TRUE

\* identity of a dict object that no item and no pending edit refers to
FreshObj(items, pending) ==
  CHOOSE k \in 1..(Len(items) + 2) :
    /\ k # pending
    /\ \A j \in 1..Len(items) : items[j].obj # k
    /\ \A m \in 1..(k - 1) :
         m = pending \/ \E j \in 1..Len(items) : items[j].obj = m

\* list.pop(i), i counted from 0
Pop(items, i) == SubSeq(items, 1, i) \o SubSeq(items, i + 2, Len(items))

\* a run begins: the changed widget, then the script down to line 531
BeginRun ==
  /\ run_pc = "idle"
  /\ \E e \in Events :
       /\ Rendered(e, editing_item, itens)
       /\ event' = e
       /\ IF e = "ipi"
            THEN impostos_ipi' \in IpiPercs \ {impostos_ipi}
            ELSE UNCHANGED impostos_ipi
  /\ editing_item' = EditCheck(editing_item, itens)
  /\ editing_obj' = IF editing_item' = NoIndex THEN 0 ELSE editing_obj
  /\ dados' = <<>>
  /\ criar_pdf_calls' = <<>>
  /\ gerar_outcome' = "none"
  /\ run_pc' = "handlers"
  /\ UNCHANGED itens
  /\ UNCHANGED <<pdfvars, sanvars, logovars, totvars, storevars,
                 racevars>>

\* a run that no button started ends without a handler
NoButton ==
  /\ run_pc = "handlers"
  /\ event = "ipi"
  /\ run_pc' = "idle"
  /\ event' = "none"
  /\ UNCHANGED <<itens, editing_item, editing_obj, impostos_ipi,
                 dados, criar_pdf_calls, gerar_outcome>>
  /\ UNCHANGED <<pdfvars, sanvars, logovars, totvars, storevars,
                 racevars>>

\* lines 545-555: 'Salvar Alterações' of edit_item_form
SalvarAlteracoes ==
  /\ run_pc = "handlers"
  /\ event = "salvar"
  /\ \E descricao_e \in Descricoes, quantidade_e \in FormQuantidades,
        valor_kg_e \in FormValores :
       itens' = [itens EXCEPT ![editing_item.idx + 1] =
                   [@ EXCEPT !.descricao = descricao_e,
                             !.quantidade_kg = quantidade_e,
                             !.valor_kg = valor_kg_e]]
  /\ editing_item' = NoIndex
  /\ editing_obj' = 0
  /\ run_pc' = "idle"
  /\ event' = "none"
  /\ UNCHANGED <<impostos_ipi, dados, criar_pdf_calls, gerar_outcome>>
  /\ UNCHANGED <<pdfvars, sanvars, logovars, totvars, storevars,
                 racevars>>

\* lines 556-557: 'Cancelar Edição' of edit_item_form
CancelarEdicao ==
  /\ run_pc = "handlers"
  /\ event = "cancelar"
  /\ editing_item' = NoIndex
  /\ editing_obj' = 0
  /\ run_pc' = "idle"
  /\ event' = "none"
  /\ UNCHANGED <<itens, impostos_ipi, dados, criar_pdf_calls,
                 gerar_outcome>>
  /\ UNCHANGED <<pdfvars, sanvars, logovars, totvars, storevars,
                 racevars>>

\* line 584: what the add_item_form handler refuses
AddRefused(descricao, quantidade_kg, valor_kg) ==
  descricao = "" \/ quantidade_kg <= 0 \/ valor_kg <= 0

\* lines 583-592: 'Adicionar Item' of add_item_form
AdicionarItem ==
  /\ run_pc = "handlers"
  /\ event = "adicionar"
  /\ \E descricao \in Descricoes, quantidade_kg \in FormQuantidades,
        valor_kg \in FormValores :
       IF AddRefused(descricao, quantidade_kg, valor_kg)
         THEN UNCHANGED itens
         ELSE itens' = Append(itens,
                Item(FreshObj(itens, editing_obj), descricao, quantidade_kg,
                     valor_kg, impostos_ipi))
  /\ run_pc' = "idle"
  /\ event' = "none"
  /\ UNCHANGED <<editing_item, editing_obj, impostos_ipi, dados,
                 criar_pdf_calls, gerar_outcome>>
  /\ UNCHANGED <<pdfvars, sanvars, logovars, totvars, storevars,
                 racevars>>

\* lines 607-608: 'Remover' of item i
Remover ==
  /\ run_pc = "handlers"
  /\ event = "remover"
  /\ \E i \in 0..(Len(itens) - 1) : itens' = Pop(itens, i)
  /\ run_pc' = "idle"
  /\ event' = "none"
  /\ UNCHANGED <<editing_item, editing_obj, impostos_ipi, dados,
                 criar_pdf_calls, gerar_outcome>>
  /\ UNCHANGED <<pdfvars, sanvars, logovars, totvars, storevars,
                 racevars>>

\* lines 609-610: 'Editar' of item i
Editar ==
  /\ run_pc = "handlers"
  /\ event = "editar"
  /\ \E i \in 0..(Len(itens) - 1) :
       /\ editing_item' = Index(i)
       /\ editing_obj' = itens[i + 1].obj
  /\ run_pc' = "idle"
  /\ event' = "none"
  /\ UNCHANGED <<itens, impostos_ipi, dados, criar_pdf_calls,
                 gerar_outcome>>
  /\ UNCHANGED <<pdfvars, sanvars, logovars, totvars, storevars,
                 racevars>>

\* lines 614-615: 'Limpar Itens'
LimparItens ==
  /\ run_pc = "handlers"
  /\ event = "limpar"
  /\ itens' = <<>>
  /\ run_pc' = "idle"
  /\ event' = "none"
  /\ UNCHANGED <<editing_item, editing_obj, impostos_ipi, dados,
                 criar_pdf_calls, gerar_outcome>>
  /\ UNCHANGED <<pdfvars, sanvars, logovars, totvars, storevars,
                 racevars>>

\* what a helper returns in place of a string: None, or the encoded bytes
\* of a file
NoData == [kind |-> "None", mime |-> "", of |-> NoPath]

\* lines 42-49: base64 of the file's bytes; None when the path is falsy, the
\* file does not exist or read_bytes raises
encode_image_b64(files, unreadable, path) ==
  IF path = NoPath \/ path \notin files THEN NoData
  ELSE IF path \in unreadable THEN NoData
  ELSE [kind |-> "b64", mime |-> "", of |-> path]

\* lines 54 and 658
Mime(path) == IF path.name.suffix = ".png" THEN "image/png" ELSE "image/jpeg"

\* lines 51-58
to_data_uri(files, unreadable, path) ==
  IF path = NoPath \/ path \notin files THEN NoData
  ELSE IF path \in unreadable THEN NoData
  ELSE [kind |-> "data_uri", mime |-> Mime(path), of |-> path]

WatermarkName == FileName("watermark", ".png")

\* lines 61-68: candidates, in the order of the list
WatermarkCandidates ==
  <<PathOf("__file__.parent", WatermarkName),
    PathOf("__file__.parent/assets", WatermarkName),
    PathOf("cwd", WatermarkName),
    PathOf("cwd/assets", WatermarkName),
    PathOf("/mount/src/orcamentotransplas", WatermarkName),
    PathOf("/workspaces/orcamentotransplas", WatermarkName)>>

\* lines 60-72
find_watermark_path(files) ==
  LET hits == {k \in 1..Len(WatermarkCandidates) :
                 WatermarkCandidates[k] \in files}
  IN IF hits = {} THEN NoPath
     ELSE WatermarkCandidates[CHOOSE k \in hits : \A j \in hits : k <= j]

\* lines 140 and 148: EMPRESAS[key]['logo_path']
LogoPathOf(key) ==
  PathOf("/workspaces/orcamentotransplas", FileName(NomeBase(key), ".png"))

\* lines 654-661: dados_empresa['logo_base64']; the string concatenation of
\* line 659 raises TypeError when encode_image_b64 returns None
LogoBase64(files, unreadable, key) ==
  LET logo_path_obj == find_logo_path_from_hint(files, key, LogoPathOf(key))
      b64 == encode_image_b64(files, unreadable, logo_path_obj)
  IN IF logo_path_obj # NoPath
       THEN IF b64 = NoData
              THEN [raises |-> TRUE, value |-> NoData]
              ELSE [raises |-> FALSE,
                    value |-> [kind |-> "data_uri",
                               mime |-> Mime(logo_path_obj),
                               of |-> logo_path_obj]]
       ELSE [raises |-> FALSE, value |-> NoData]

\* lines 663-664: watermark_datauri; '' when no watermark file is found
WatermarkDataUri(files, unreadable) ==
  LET wm_path == find_watermark_path(files)
  IN IF wm_path # NoPath THEN to_data_uri(files, unreadable, wm_path)
     ELSE [kind |-> "empty", mime |-> "", of |-> NoPath]

\* the files the handler may find: the logo at the path EMPRESAS names, a
\* logo under a conventional name, a watermark
AssetFiles ==
  {LogoPathOf("ISOFORMA"),
   PathOf("cwd", FileName(NomeBase("ISOFORMA"), ".jpg")),
   PathOf("__file__.parent", WatermarkName)}

\* the file system at the time of a run: the files that exist and, among
\* them, those whose read_bytes raises
AssetWorlds ==
  UNION {{[files |-> F, unreadable |-> U] : U \in SUBSET F} :
           F \in SUBSET AssetFiles}

\* lines 654-664: what the handler gets for the logo of the selected
\* company and for the watermark, over the companies and the file systems
AssetOutcomes ==
  {[logo |-> LogoBase64(w.files, w.unreadable, key),
    watermark |-> WatermarkDataUri(w.files, w.unreadable)] :
     key \in EmpresaKeys, w \in AssetWorlds}

\* lines 666-688: the record built for criar_pdf
BuildDados(razao_social, items, ipi_percent, qtde_parcelas, logo, watermark) ==
  LET totais == Totais(items, ipi_percent, qtde_parcelas)
  IN [empresa |-> [logo_base64 |-> logo.value],
      cliente |-> [razao_social |-> razao_social],
      itens |-> items,
      pagamento |-> [qtde_parcelas |-> totais.qtde_parcelas,
                     valor_parcela |-> totais.valor_parcela],
      totais |-> [valor_mercadoria |-> totais.valor_mercadoria,
                  ipi_perc |-> totais.ipi_perc,
                  valor_ipi |-> totais.valor_ipi,
                  total_nf |-> totais.total_nf,
                  total_kg |-> totais.total_kg],
      watermark_datauri |-> watermark]

\* lines 622-633: the errors found in a record
validar_dados_para_pdf(d) ==
  (IF d.cliente.razao_social = ""
     THEN {[item |-> 0, erro |-> "razao_social_vazia"]} ELSE {})
    \cup (IF d.itens = <<>>
            THEN {[item |-> 0, erro |-> "nenhum_item"]} ELSE {})
    \cup {[item |-> k, erro |-> "quantidade_invalida"] :
            k \in {j \in 1..Len(d.itens) : d.itens[j].quantidade_kg <= 0}}
    \cup {[item |-> k, erro |-> "valor_invalido"] :
            k \in {j \in 1..Len(d.itens) : d.itens[j].valor_kg <= 0}}

\* a plausible slip: the handler calls criar_pdf without any check
GerarPathUnchecked(razao_social, items, logo, record) ==
  IF logo.raises THEN "preparation_exception" ELSE "criar_pdf"

\* lines 639-696: the way through the handler, down to the call of criar_pdf
GerarPath(razao_social, items, logo, record) ==
  IF razao_social = "" \/ items = <<>> THEN "input_check_failed"
  ELSE IF logo.raises THEN "preparation_exception"
  ELSE IF validar_dados_para_pdf(record) # {} THEN "validation_errors"
  ELSE "criar_pdf"

\* lines 698-706: criar_pdf returns bytes, returns None or raises
CompositorOutcomes == {"bytes", "None", "raises"}

\* a plausible slip: the items are dropped when the preparation fails
ItensClearedOnError(session_itens, path) ==
  IF path = "preparation_exception" THEN <<>> ELSE session_itens

\* lines 638-718: the handler assigns nothing to st.session_state.itens
ItensAfterGerar(session_itens, path) == session_itens

\* lines 638-718: 'Gerar PDF do Orçamento'
GerarPdf ==
  /\ run_pc = "handlers"
  /\ event = "gerar"
  /\ \E razao_social \in RazoesSociais, qtde_parcelas \in FormParcelas,
        assets \in AssetOutcomes, outcome \in CompositorOutcomes :
       LET logo == assets.logo
           record == BuildDados(razao_social, itens, impostos_ipi,
                                qtde_parcelas, logo, assets.watermark)
           path == GerarPath(razao_social, itens, logo, record)
       IN /\ dados' = IF path \in {"validation_errors", "criar_pdf"}
                        THEN <<record>> ELSE <<>>
          /\ criar_pdf_calls' = IF path = "criar_pdf" THEN <<record>>
                                ELSE <<>>
          /\ gerar_outcome' =
               IF path # "criar_pdf" THEN path
               ELSE IF outcome = "bytes" THEN "success"
               ELSE "compositor_failed"
          /\ itens' = ItensAfterGerar(itens, path)
  /\ run_pc' = "idle"
  /\ event' = "none"
  /\ UNCHANGED <<editing_item, editing_obj, impostos_ipi>>
  /\ UNCHANGED <<pdfvars, sanvars, logovars, totvars, storevars,
                 racevars>>

SessInit ==
  /\ PdfIdle
  /\ SanIdle
  /\ RaceIdle
  /\ StoreIdle
  /\ LogoIdle
  /\ TotIdle
  /\ SessIdle

SessNext ==
  \/ BeginRun
  \/ NoButton
  \/ SalvarAlteracoes
  \/ CancelarEdicao
  \/ AdicionarItem
  \/ Remover
  \/ Editar
  \/ LimparItens
  \/ GerarPdf

SessSpec == SessInit /\ [][SessNext]_vars

(***************************************************************************)
(* The client and product stores.  A record has an id, a business key      *)
(* (cnpj of a client, sku of a product) and a name (razao_social,          *)
(* descricao); the other columns are carried along unread.  A script run   *)
(* passes the client sidebar (get_all_clients, then the form handler), the *)
(* product sidebar (the form handler) and the item column                  *)
(* (get_all_products), in this order.  database.add_client works on the    *)
(* sqlite table, apart from the session.                                   *)
(***************************************************************************)
MaxAdds == 2

\* a value as Python types it: the cells read from a worksheet are str, the
\* id computed by add_client is int
PyStr(n) == [py |-> "str", v |-> n]

PyInt(n) == [py |-> "int", v |-> n]

\* str(x) of an id: its decimal digits
Str(x) == x.v

Record(id, key, nome) == [id |-> id, key |-> key, nome |-> nome]

\* what the forms "Adicionar Novo Cliente" and "Adicionar Novo Produto"
\* submit: key and name as typed, no id yet
FormKeys == {"", "11", "22"}

FormNomes == {"", "ACME"}

FormData == {Record(NoRecord.id, k, n) : k \in FormKeys, n \in FormNomes}

\* the worksheets as the session finds them: data rows below the header
InitialSheets ==
  {<<>>,
   <<Record(1, "11", "ACME")>>,
   <<Record(2, "", "ACME"), Record(5, "22", "ACME")>>}

\* the header cell of the key column
Header(aba) == IF aba = "Clientes" THEN "cnpj" ELSE "sku"

\* ws.col_values of the key column: the header cell, then the data cells
KeyColValues(aba, sheet) ==
  <<Header(aba)>> \o [k \in 1..Len(sheet) |-> sheet[k].key]

\* ws.col_values(id_col_index)[1:]
IdColValues(sheet) == [k \in 1..Len(sheet) |-> sheet[k].id]

Max(S) == CHOOSE m \in S : \A x \in S : x <= m

\* lines 260-262 and 328-330
NextId(sheet) ==
  IF sheet = <<>> THEN 1 ELSE Max(Range(IdColValues(sheet))) + 1

\* what the network does to a call of the gspread client
NetOutcomes == {"ok", "raises"}

\* lines 186-217: the rows as a list of dicts of str; an exception is
\* swallowed and gives the empty list
carregar_aba(sheet, net) ==
  IF net = "ok"
    THEN [k \in 1..Len(sheet) |->
            Record(PyStr(sheet[k].id), sheet[k].key, sheet[k].nome)]
    ELSE <<>>

\* a plausible slip: the worksheet is read on every call
get_all_clients_reloading(cache, sheet, net) ==
  [ret |-> carregar_aba(sheet, net), cache |-> Cache(carregar_aba(sheet, net)),
   reads |-> 1]

\* lines 219-229
get_all_clients(cache, sheet, net) ==
  IF cache.set THEN [ret |-> cache.list, cache |-> cache, reads |-> 0]
  ELSE [ret |-> carregar_aba(sheet, net),
        cache |-> Cache(carregar_aba(sheet, net)), reads |-> 1]

\* lines 290-299
get_all_products(cache, sheet, net) ==
  IF cache.set THEN [ret |-> cache.list, cache |-> cache, reads |-> 0]
  ELSE [ret |-> carregar_aba(sheet, net),
        cache |-> Cache(carregar_aba(sheet, net)), reads |-> 1]

\* lines 234-237 and 303-306: the first record whose str(id) matches
FirstById(list, id) ==
  LET hits == {k \in 1..Len(list) : Str(list[k].id) = Str(id)}
  IN IF hits = {} THEN NoRecord
     ELSE list[CHOOSE k \in hits : \A j \in hits : k <= j]

\* lines 231-237, on the list get_all_clients returned
get_client_by_id(clients, client_id) == FirstById(clients, client_id)

\* lines 301-306, on the list get_all_products returned
get_product_by_id(products, product_id) == FirstById(products, product_id)

\* lines 250-251 and 319-320: the key is non-empty and in the key column
KeyStored(aba, sheet, key) ==
  key # "" /\ key \in Range(KeyColValues(aba, sheet))

\* lines 264-276 and 332-344: the row appended and the cache extended
Appended(sheet, cache, data) ==
  [ok |-> TRUE,
   sheet |-> Append(sheet, Record(NextId(sheet), data.key, data.nome)),
   cache |-> Cache((IF cache.set THEN cache.list ELSE <<>>)
                     \o <<Record(PyInt(NextId(sheet)), data.key, data.nome)>>)]

\* a plausible slip: the key column is not looked at
add_client_unchecked(sheet, cache, data, net) ==
  IF net = "raises" THEN [ok |-> FALSE, sheet |-> sheet, cache |-> cache]
  ELSE Appended(sheet, cache, data)

\* lines 239-288
add_client(sheet, cache, data, net) ==
  IF net = "raises" \/ KeyStored("Clientes", sheet, data.key)
    THEN [ok |-> FALSE, sheet |-> sheet, cache |-> cache]
    ELSE Appended(sheet, cache, data)

\* lines 308-352
add_product(sheet, cache, data, net) ==
  IF net = "raises" \/ KeyStored("Produtos", sheet, data.key)
    THEN [ok |-> FALSE, sheet |-> sheet, cache |-> cache]
    ELSE Appended(sheet, cache, data)

\* the records a call has added to a cache
NewRecords(before, after) ==
  SubSeq(after.list, Len(before.list) + 1, Len(after.list))

\* lines 375-376: the clients the selectbox offers
ClientesValidos(clients) ==
  {k \in 1..Len(clients) : clients[k].nome # ""}

\* the widgets whose change starts a run, with what they submit
StoreEvents ==
  {[widget |-> w, data |-> NoRecord] : w \in {"none", "cliente_select"}}
    \cup {[widget |-> w, data |-> d] :
            w \in {"new_client_form", "new_product_form"}, d \in FormData}

\* the rows this session and the callers of the database have added
Added ==
  Len(session_added.Clientes) + Len(session_added.Produtos)
    + Len(db_clientes)

\* a run begins with the widget that changed; the forms can be submitted
\* once a run has rendered them
StoreBeginRun ==
  /\ store_pc = "idle"
  /\ \E e \in StoreEvents :
       /\ e.widget # "none" => page_rendered
       /\ e.data # NoRecord => Added < MaxAdds
       /\ store_event' = e
  /\ add_ret' = NoReturn
  /\ store_pc' = "sidebar_clientes"
  /\ UNCHANGED <<page_rendered, sheet_clientes, sheet_produtos,
                 clientes_cache, produtos_cache, sheet_reads, first_load,
                 session_added, dados_cliente, cliente_id, db_clientes,
                 db_ret>>
  /\ UNCHANGED <<pdfvars, sanvars, logovars, sessvars, totvars,
                 racevars>>

\* lines 401-402 and 431-432: both fields of the form are required
FormComplete(data) == data.nome # "" /\ data.key # ""

\* lines 368-411: get_all_clients, the selectbox, the form handler
SidebarClientes ==
  /\ store_pc = "sidebar_clientes"
  /\ \E load \in NetOutcomes, net \in NetOutcomes :
       LET got == get_all_clients(clientes_cache, sheet_clientes, load)
           submitted == /\ store_event.widget = "new_client_form"
                        /\ FormComplete(store_event.data)
           added == IF submitted
                      THEN add_client(sheet_clientes, got.cache,
                                      store_event.data, net)
                      ELSE [ok |-> FALSE, sheet |-> sheet_clientes,
                            cache |-> got.cache]
       IN /\ sheet_reads' = [sheet_reads EXCEPT !.Clientes = @ + got.reads]
          /\ first_load' = IF got.reads = 1 /\ ~first_load.Clientes.set
                             THEN [first_load EXCEPT !.Clientes = got.cache]
                             ELSE first_load
          /\ sheet_clientes' = added.sheet
          /\ clientes_cache' = added.cache
          /\ add_ret' = IF submitted
                          THEN [fn |-> "add_client", ok |-> added.ok]
                          ELSE add_ret
          /\ session_added' =
               [session_added EXCEPT !.Clientes =
                  @ \o NewRecords(got.cache, added.cache)]
          /\ IF store_event.widget = "cliente_select"
                  /\ ClientesValidos(got.ret) # {}
               THEN \E k \in ClientesValidos(got.ret) :
                      /\ cliente_id' = got.ret[k].id
                      /\ dados_cliente' =
                           IF cliente_id # got.ret[k].id
                             THEN get_client_by_id(got.ret, got.ret[k].id)
                             ELSE dados_cliente
               ELSE UNCHANGED <<dados_cliente, cliente_id>>
  /\ store_pc' = "sidebar_produtos"
  /\ UNCHANGED <<store_event, page_rendered, sheet_produtos, produtos_cache,
                 db_clientes, db_ret>>
  /\ UNCHANGED <<pdfvars, sanvars, logovars, sessvars, totvars,
                 racevars>>

\* lines 417-441: the form handler
SidebarProdutos ==
  /\ store_pc = "sidebar_produtos"
  /\ \E net \in NetOutcomes :
       LET submitted == /\ store_event.widget = "new_product_form"
                        /\ FormComplete(store_event.data)
           added == IF submitted
                      THEN add_product(sheet_produtos, produtos_cache,
                                       store_event.data, net)
                      ELSE [ok |-> FALSE, sheet |-> sheet_produtos,
                            cache |-> produtos_cache]
       IN /\ sheet_produtos' = added.sheet
          /\ produtos_cache' = added.cache
          /\ add_ret' = IF submitted
                          THEN [fn |-> "add_product", ok |-> added.ok]
                          ELSE add_ret
          /\ session_added' =
               [session_added EXCEPT !.Produtos =
                  @ \o NewRecords(produtos_cache, added.cache)]
  /\ store_pc' = "col_itens"
  /\ UNCHANGED <<store_event, page_rendered, sheet_clientes, clientes_cache,
                 sheet_reads, first_load, dados_cliente, cliente_id,
                 db_clientes, db_ret>>
  /\ UNCHANGED <<pdfvars, sanvars, logovars, sessvars, totvars,
                 racevars>>

\* lines 505-506: get_all_products; the run goes on to render the page
ColItens ==
  /\ store_pc = "col_itens"
  /\ \E load \in NetOutcomes :
       LET got == get_all_products(produtos_cache, sheet_produtos, load)
       IN /\ sheet_reads' = [sheet_reads EXCEPT !.Produtos = @ + got.reads]
          /\ first_load' = IF got.reads = 1 /\ ~first_load.Produtos.set
                             THEN [first_load EXCEPT !.Produtos = got.cache]
                             ELSE first_load
          /\ produtos_cache' = got.cache
  /\ page_rendered' = TRUE
  /\ store_pc' = "idle"
  /\ UNCHANGED <<store_event, sheet_clientes, sheet_produtos, clientes_cache,
                 session_added, add_ret, dados_cliente, cliente_id,
                 db_clientes, db_ret>>
  /\ UNCHANGED <<pdfvars, sanvars, logovars, sessvars, totvars,
                 racevars>>

\* cliente_data['cnpj'] given as None: SQL NULL
Null == "NULL"

\* the rows database.add_client is called with
DbData ==
  {Record(NoRecord.id, k, n) : k \in FormKeys \cup {Null},
                                n \in {"ACME", Null}}

\* src/database.py lines 22-29: razao_social TEXT NOT NULL, cnpj TEXT UNIQUE
\* (NULLs do not collide)
IntegrityError(rows, data) ==
  \/ data.nome = Null
  \/ data.key # Null /\ \E k \in 1..Len(rows) : rows[k].key = data.key

\* src/database.py lines 40-61: INSERT, commit, True; IntegrityError, False
DbInsert(rows, data) ==
  IF IntegrityError(rows, data) THEN [ok |-> FALSE, rows |-> rows]
  ELSE [ok |-> TRUE,
        rows |-> Append(rows, Record(NextId(rows), data.key, data.nome))]

\* database.add_client(cliente_data)
DbAddClientWith(data) ==
  /\ store_pc = "idle"
  /\ Added < MaxAdds
  /\ db_clientes' = DbInsert(db_clientes, data).rows
  /\ db_ret' = [fn |-> "database.add_client",
                ok |-> DbInsert(db_clientes, data).ok]
  /\ UNCHANGED <<store_pc, store_event, page_rendered, sheet_clientes,
                 sheet_produtos, clientes_cache, produtos_cache, sheet_reads,
                 first_load, session_added, add_ret, dados_cliente,
                 cliente_id>>
  /\ UNCHANGED <<pdfvars, sanvars, logovars, sessvars, totvars,
                 racevars>>

DbAddClient == \E data \in DbData : DbAddClientWith(data)

StoreInit ==
  /\ PdfIdle
  /\ SanIdle
  /\ RaceIdle
  /\ LogoIdle
  /\ SessIdle
  /\ TotIdle
  /\ store_pc = "idle"
  /\ store_event = [widget |-> "none", data |-> NoRecord]
  /\ page_rendered = FALSE
  /\ sheet_clientes \in InitialSheets
  /\ sheet_produtos \in InitialSheets
  /\ clientes_cache = NoCache
  /\ produtos_cache = NoCache
  /\ sheet_reads = [Clientes |-> 0, Produtos |-> 0]
  /\ first_load = [Clientes |-> NoCache, Produtos |-> NoCache]
  /\ session_added = [Clientes |-> <<>>, Produtos |-> <<>>]
  /\ add_ret = NoReturn
  /\ dados_cliente = NoRecord
  /\ cliente_id = NoRecord.id
  /\ db_clientes = <<>>
  /\ db_ret = NoReturn

StoreNext ==
  \/ StoreBeginRun
  \/ SidebarClientes
  \/ SidebarProdutos
  \/ ColItens
  \/ DbAddClient

StoreSpec == StoreInit /\ [][StoreNext]_vars

(***************************************************************************)
(* add_client and add_product called by several sessions on the same       *)
(* spreadsheet.  A call is three requests to the spreadsheet, the key      *)
(* column, the id column, the appended row, and the requests of different  *)
(* sessions interleave.  The cache each call extends belongs to its own    *)
(* session and plays no part in what the other session sees.               *)
(***************************************************************************)
MaxCalls == 3

Abas == {"Clientes", "Produtos"}

\* the worksheet a call works on
SheetOf(aba) == IF aba = "Clientes" THEN sheet_clientes ELSE sheet_produtos

\* lines 240-243 and 309-312: the call opens its worksheet
RaceCall(s) ==
  /\ race_pc[s] = "idle"
  /\ race_calls < MaxCalls
  /\ \E aba \in Abas, data \in FormData :
       race_call' = [race_call EXCEPT ![s] =
                       [NoCall EXCEPT !.aba = aba, !.data = data]]
  /\ race_pc' = [race_pc EXCEPT ![s] = "read_keys"]
  /\ race_calls' = race_calls + 1
  /\ UNCHANGED <<pdfvars, sanvars, logovars, sessvars, totvars, storevars>>

\* lines 285-288 and 349-352: the request raised, the call returns False
RaceFailed(s) ==
  /\ race_call' = [race_call EXCEPT ![s].ret = "False"]
  /\ race_pc' = [race_pc EXCEPT ![s] = "returned"]

\* lines 250-253 and 319-321: the key column is read and looked at
RaceReadKeys(s) ==
  /\ race_pc[s] = "read_keys"
  /\ \E net \in NetOutcomes :
       LET call == race_call[s]
           keys == KeyColValues(call.aba, SheetOf(call.aba))
       IN IF net = "raises" \/ KeyStored(call.aba, SheetOf(call.aba),
                                        call.data.key)
            THEN RaceFailed(s)
            ELSE /\ race_call' = [race_call EXCEPT ![s].keys = keys]
                 /\ race_pc' = [race_pc EXCEPT ![s] = "read_ids"]
  /\ UNCHANGED race_calls
  /\ UNCHANGED <<pdfvars, sanvars, logovars, sessvars, totvars, storevars>>

\* lines 260-262 and 328-330: the id column is read, next_id computed
RaceReadIds(s) ==
  /\ race_pc[s] = "read_ids"
  /\ \E net \in NetOutcomes :
       IF net = "raises"
         THEN RaceFailed(s)
         ELSE /\ race_call' =
                   [race_call EXCEPT
                      ![s].next_id = NextId(SheetOf(race_call[s].aba))]
              /\ race_pc' = [race_pc EXCEPT ![s] = "append"]
  /\ UNCHANGED race_calls
  /\ UNCHANGED <<pdfvars, sanvars, logovars, sessvars, totvars, storevars>>

\* the row a call appends
NovaLinha(call) == Record(call.next_id, call.data.key, call.data.nome)

\* lines 264-276 and 332-344: the row is appended, the call returns True
RaceAppendRow(s) ==
  /\ race_pc[s] = "append"
  /\ \E net \in NetOutcomes :
       IF net = "raises"
         THEN /\ RaceFailed(s)
              /\ UNCHANGED <<sheet_clientes, sheet_produtos>>
         ELSE /\ race_call' = [race_call EXCEPT ![s].ret = "True"]
              /\ race_pc' = [race_pc EXCEPT ![s] = "returned"]
              /\ IF race_call[s].aba = "Clientes"
                   THEN /\ sheet_clientes' =
                             Append(sheet_clientes, NovaLinha(race_call[s]))
                        /\ UNCHANGED sheet_produtos
                   ELSE /\ sheet_produtos' =
                             Append(sheet_produtos, NovaLinha(race_call[s]))
                        /\ UNCHANGED sheet_clientes
  /\ UNCHANGED race_calls
  /\ UNCHANGED <<store_pc, store_event, page_rendered, clientes_cache,
                 produtos_cache, sheet_reads, first_load, session_added,
                 add_ret, dados_cliente, cliente_id, db_clientes, db_ret>>
  /\ UNCHANGED <<pdfvars, sanvars, logovars, sessvars, totvars>>

\* the caller has the answer; the session may call again
RaceReturn(s) ==
  /\ race_pc[s] = "returned"
  /\ race_pc' = [race_pc EXCEPT ![s] = "idle"]
  /\ race_call' = [race_call EXCEPT ![s] = NoCall]
  /\ UNCHANGED race_calls
  /\ UNCHANGED <<pdfvars, sanvars, logovars, sessvars, totvars, storevars>>

RaceInit ==
  /\ PdfIdle
  /\ SanIdle
  /\ LogoIdle
  /\ SessIdle
  /\ TotIdle
  /\ RaceIdle
  /\ store_pc = "idle"
  /\ store_event = [widget |-> "none", data |-> NoRecord]
  /\ page_rendered = FALSE
  /\ sheet_clientes \in InitialSheets
  /\ sheet_produtos \in InitialSheets
  /\ clientes_cache = NoCache
  /\ produtos_cache = NoCache
  /\ sheet_reads = [Clientes |-> 0, Produtos |-> 0]
  /\ first_load = [Clientes |-> NoCache, Produtos |-> NoCache]
  /\ session_added = [Clientes |-> <<>>, Produtos |-> <<>>]
  /\ add_ret = NoReturn
  /\ dados_cliente = NoRecord
  /\ cliente_id = NoRecord.id
  /\ db_clientes = <<>>
  /\ db_ret = NoReturn

RaceNext ==
  \E s \in Sessions :
    \/ RaceCall(s)
    \/ RaceReadKeys(s)
    \/ RaceReadIds(s)
    \/ RaceAppendRow(s)
    \/ RaceReturn(s)

RaceSpec == RaceInit /\ [][RaceNext]_vars

(***************************************************************************)
(* Properties of criar_pdf_em_memoria, checked under Spec.                 *)
(***************************************************************************)
Returned == pc = "returned"

Calls == Len(backend_calls)

PrimaryRan == Calls >= 1

FallbackRan == Calls = 2

BothFailed ==
  /\ FallbackRan
  /\ backend_calls[1].outcome # "ok"
  /\ backend_calls[2].outcome # "ok"

\* what the caller has in hand to tell a failure by: the exception that left
\* the call, else the returned None
ErrorSignal ==
  IF propagated # "none" THEN propagated
  ELSE IF retval = None THEN "None"
  ELSE "no_error"

\* C1: the fallback attempt runs if and only if the primary attempt failed,
\* at most once and only after it; its input is the aggressive pass applied
\* to the original rendered HTML; when the fallback backend accepts, the call
\* returns the fallback's bytes; a call that went to the backends returns
\* None only if both attempts failed.
C1_FallbackPolicy ==
  /\ Calls <= 2
  /\ \A k \in 1..Calls :
       backend_calls[k].attempt = (IF k = 1 THEN "primary" ELSE "fallback")
  /\ FallbackRan => backend_calls[1].outcome # "ok"
  /\ (Returned /\ PrimaryRan /\ backend_calls[1].outcome # "ok")
       => FallbackRan
  /\ PrimaryRan => backend_calls[1].src = html_sanitizado
  /\ FallbackRan =>
       backend_calls[2].src = _remove_table_styles_completely(html_renderizado)
  /\ (Returned /\ FallbackRan /\ backend_calls[2].outcome = "ok")
       => /\ retval = Bytes(fallback_buffer)
          /\ fallback_buffer = PdfDocument("fallback")
  /\ (Returned /\ PrimaryRan /\ retval = None) => BothFailed

\* C1 witness: the primary attempt failed, the fallback ran on an input that
\* differs from the aggressive pass of the sanitized HTML, and was returned
C1_Witness ==
  /\ Returned
  /\ FallbackRan
  /\ backend_calls[2].outcome = "ok"
  /\ retval.kind = "bytes"
  /\ _remove_table_styles_completely(html_renderizado)
       # _remove_table_styles_completely(html_sanitizado)

\* C2: returned bytes are the whole buffer of the one attempt that reported
\* no error; bytes of a failed first attempt are never returned nor mixed
\* into the fallback's output; every failure returns no bytes; every
\* attempt writes to an in-memory buffer.
C2_BufferIntegrity ==
  /\ \A k \in 1..Calls :
       backend_calls[k].dest \in {"result_buffer", "fallback_buffer"}
  /\ retval.kind = "bytes" =>
       /\ Calls >= 1
       /\ backend_calls[Calls].outcome = "ok"
       /\ retval.data = PdfDocument(backend_calls[Calls].attempt)
       /\ retval.data =
            (IF Calls = 1 THEN result_buffer ELSE fallback_buffer)
       /\ \A b \in 1..Len(retval.data) :
            retval.data[b].by = backend_calls[Calls].attempt
  /\ (Returned /\ \A k \in 1..Calls : backend_calls[k].outcome # "ok")
       => retval = None

\* C2 witness: the failed first attempt left bytes in its buffer and the
\* fallback's bytes were returned
C2_Witness ==
  /\ Returned
  /\ FallbackRan
  /\ result_buffer # <<>>
  /\ backend_calls[2].outcome = "ok"
  /\ retval = Bytes(fallback_buffer)

\* C3 as stated: when the fallback attempt also fails, the caller gets a
\* PdfGenerationError
C3_Original == (Returned /\ BothFailed) => ErrorSignal = "PdfGenerationError"

\* C3 amended: when the fallback attempt also fails, the call returns None,
\* the value of every other failure, and raises nothing; the failure is
\* named only by the st.error message of the fallback
C3_FallbackFailureReturnsNone ==
  (Returned /\ BothFailed) =>
    /\ retval = None
    /\ propagated = "none"
    /\ st_log[Len(st_log)].level = "error"
    /\ st_log[Len(st_log)].text =
         (IF backend_calls[2].outcome = "err" THEN "fallback_err"
          ELSE "fallback_exception")

C3_Witness == Returned /\ BothFailed /\ fallback_buffer # <<>>

\* C4 as stated: a missing template fails with TemplateNotFoundError, and no
\* backend is invoked
C4_Original ==
  (Returned /\ ~template_found) =>
    /\ ErrorSignal = "TemplateNotFoundError"
    /\ backend_calls = <<>>

\* C4 amended: a missing template makes the call show the template-not-found
\* message and return None, the generic failure value, with no retry and no
\* backend invoked
C4_MissingTemplateReturnsNone ==
  (Returned /\ ~template_found) =>
    /\ retval = None
    /\ propagated = "none"
    /\ backend_calls = <<>>
    /\ st_log = <<Msg("error", "template_not_found",
                      {"template_name", "script_dir"})>>

C4_Witness == Returned /\ ~template_found

\* C5 as stated: a context that lacks a field the template needs fails with
\* a RenderError carrying the template name and the underlying error, with
\* no backend attempt and no bytes
C5_Original ==
  (Returned /\ template_found /\ missing_field # "none") =>
    /\ ErrorSignal = "RenderError"
    /\ \E k \in 1..Len(st_log) :
         {"template_name", "underlying_error"} \subseteq st_log[k].carries
    /\ backend_calls = <<>>
    /\ retval.kind # "bytes"

\* C5 amended: when template.render raises on the missing field, the call
\* returns None after the generic unexpected-exception message, which
\* carries the underlying error and not the template name; no backend
\* attempt is made and no bytes are returned.  A missing field that is only
\* printed renders as empty text and the call goes on to the backends.
C5_RenderExceptionReturnsNone ==
  /\ (Returned /\ template_found /\ RenderRaises(missing_field)) =>
       /\ retval = None
       /\ propagated = "none"
       /\ backend_calls = <<>>
       /\ st_log = <<Msg("error", "unexpected_exception",
                         {"underlying_error"})>>
  /\ (Returned /\ template_found /\ missing_field = "printed") => PrimaryRan

C5_Witness == Returned /\ template_found /\ RenderRaises(missing_field)

\* C10: the HTML handed to a backend always contains the print-colour rule,
\* in the primary and in the fallback attempt
C10_PrintRuleInjected ==
  \A k \in 1..Calls : Contains(backend_calls[k].src, PrintColorRule)

\* C16: criar_pdf_em_memoria never raises to its caller, makes at most two
\* backend invocations, returns either PDF bytes or None, and every call that
\* has begun reaches its return, whatever the template lookup, the rendering
\* and the backends do.
C16_NeverRaisesAndTerminates ==
  /\ [](/\ propagated = "none"
        /\ Calls <= 2
        /\ Returned => retval.kind \in {"bytes", "None"})
  /\ (pc = "get_template") ~> Returned

\* a call whose two backend invocations both ended in an exception has
\* returned None
C16_Witness ==
  /\ Returned
  /\ FallbackRan
  /\ backend_calls[1].outcome = "exc"
  /\ backend_calls[2].outcome = "exc"
  /\ retval = None
  /\ propagated = "none"

(***************************************************************************)
(* Properties of the sanitizers, checked under SanSpec.                    *)
(***************************************************************************)
\* C6: the light pass is idempotent
C6_LightPassIdempotent == san_pc = "twice" => san_twice = san_light

\* the td cells whose double-quoted style holds height:10px, width:20px and
\* color:red, once each, in any order
PermutedCells ==
  {StyledCell(DQ, [k \in 1..3 |-> <<DeclHeight, DeclWidth, DeclColor>>[p[k]]]) :
     p \in {f \in [1..3 -> 1..3] : \A a, b \in 1..3 : f[a] = f[b] => a = b}}

EndsWith(s, suffix) ==
  /\ Len(suffix) <= Len(s)
  /\ SubSeq(s, Len(s) - Len(suffix) + 1, Len(s)) = suffix

ColorIsLast == EndsWith(san_html, DeclColor \o <<DQ, ">">>)

\* C7 as stated: whatever the order of the three declarations, the light
\* pass yields exactly <td style="color:red">
C7_Original ==
  (san_pc = "light" /\ san_html \in PermutedCells) =>
    san_light = StyledCell(DQ, <<DeclColor>>)

\* C7 amended: whatever the order, both dimension declarations are removed
\* and color:red is kept; the result is <td style="color:red"> when
\* color:red is the last declaration and <td style="color:red;"> otherwise
C7_DimensionsRemovedColorKept ==
  (san_pc = "light" /\ san_html \in PermutedCells) =>
    san_light =
      (IF ColorIsLast THEN StyledCell(DQ, <<DeclColor>>)
       ELSE StyledCell(DQ, <<DeclColor, <<>>>>))

C7_Witness ==
  /\ san_pc = "light"
  /\ san_html \in PermutedCells
  /\ ~ColorIsLast
  /\ san_light = StyledCell(DQ, <<DeclColor, <<>>>>)

\* a literal height="..." or width="..." attribute, in either quote
HasDimAttribute(s) ==
  \E i \in 1..Len(s), q \in {DQ, SQ} :
    /\ \/ MatchLit(s, i, <<"h","e","i","g","h","t","=",q>>)
       \/ MatchLit(s, i, <<"w","i","d","t","h","=",q>>)
    /\ \E k \in (i + 7)..Len(s) : s[k] = q

\* the style value v holds a declaration whose property is height or width:
\* the keyword opens a declaration and a colon follows it
HasDimDeclaration(v) ==
  \E p \in 1..Len(v) :
    /\ DimKeywordEnd(v, p) # 0
    /\ SkipSpaces(v, DimKeywordEnd(v, p)) <= Len(v)
    /\ v[SkipSpaces(v, DimKeywordEnd(v, p))] = ":"
    /\ \A k \in 1..(p - 1) :
         (v[k] \notin Space /\ v[k] # ";")
           => \E m \in (k + 1)..(p - 1) : v[m] = ";"

\* some style attribute of s, in either quote, holds such a declaration
HasDimInStyle(s) ==
  \E j \in 1..Len(s), q \in {DQ, SQ} :
    /\ StyleTail(s, j, q).ok
    /\ HasDimDeclaration(SubSeq(s, StyleTail(s, j, q).from,
                                StyleTail(s, j, q).to))

\* C8: the output of the light pass holds no height/width attribute and no
\* height/width declaration inside a style attribute
C8_NoDimensionsLeft ==
  san_pc = "light" =>
    /\ ~HasDimAttribute(san_light)
    /\ ~HasDimInStyle(san_light)

\* the text is an element whose tag name is table, tr, td or th
IsTableElement(s) ==
  \E name \in {<<"t","a","b","l","e">>, <<"t","r">>, <<"t","d">>,
               <<"t","h">>} :
    /\ MatchLit(s, 1, <<"<">> \o name)
    /\ Len(s) > Len(name) + 1
    /\ s[Len(name) + 2] \in Space \cup {">", "/"}

HasStyleAttr(s) ==
  \E j \in 1..Len(s), q \in {DQ, SQ} : StyleTail(s, j, q).ok

\* C9: after the aggressive pass no table, tr, td or th element has a style
\* attribute, also when it had more than one
C9_NoTableStyleLeft ==
  (san_pc = "aggressive" /\ IsTableElement(san_html)) =>
    ~HasStyleAttr(san_aggr)

\* C22: the aggressive pass changes only table, tr, td and th elements: an
\* element of any other tag name (thead, div) comes out as it went in, its
\* style attribute included
C22_AggressivePassLeavesOtherElements ==
  (san_pc = "aggressive" /\ ~IsTableElement(san_html)) =>
    san_aggr = san_html

\* the declaration d of the input is in the output of the light pass, name
\* and value intact
Preserved(d) == Contains(san_html, d) => Contains(san_light, d)

\* C23: inside a style attribute the light pass removes only declarations
\* whose property name is exactly height or width; every other declaration,
\* also one whose name ends in height (line-height), is preserved with name
\* and value intact
C23_OnlyExactDimensionsRemoved ==
  san_pc = "light" => (Preserved(DeclColor) /\ Preserved(DeclLineHeight))

\* A property of criar_pdf_em_memoria, checked under Spec.
\* C24: every HTML string handed to a rendering backend, in the primary and
\* in the fallback attempt, is free of literal height="..." / width="..."
\* attributes
C24_BackendInputsFreeOfDimAttributes ==
  \A k \in 1..Calls : ~HasDimAttribute(backend_calls[k].src)

(***************************************************************************)
(* Properties of find_logo_path_from_hint, checked under LogoSpec.         *)
(***************************************************************************)
LogoReturned == logo_pc = "returned"

\* the paths the call looks at
LogoCandidates ==
  Range(Candidates(BaseNames(logo_key, logo_hint)))
    \cup (IF Truthy(logo_hint) /\ IsAbsolute(logo_hint.dir)
            THEN {logo_hint} ELSE {})

\* the existing files that bear the hint's name or are the hint itself
HintMatches ==
  {f \in logo_files \cap LogoCandidates :
     Truthy(logo_hint) /\ f.name = logo_hint.name}

\* position of a directory in search_dirs
DirIndex(dir) == CHOOSE k \in 1..Len(SearchDirs) : SearchDirs[k] = dir

\* C12 as stated: whenever a file matching the hint exists among the
\* candidates, the returned file matches the hint, wherever the files lie;
\* and None is returned only when no candidate exists.
C12_Original ==
  LogoReturned =>
    /\ HintMatches # {} => logo_found \in HintMatches
    /\ logo_found = NoPath <=> logo_files \cap LogoCandidates = {}

\* C12, amended: an existing absolute hint path is returned first; otherwise
\* the result is an existing candidate of the earliest directory of
\* search_dirs that holds one, and inside that directory the hint's file
\* name wins over the conventional names; None is returned exactly when no
\* candidate exists.
C12_HintFirstWithinDirectory ==
  LogoReturned =>
    /\ (Truthy(logo_hint) /\ IsAbsolute(logo_hint.dir)
          /\ logo_hint \in logo_files) => logo_found = logo_hint
    /\ logo_found = NoPath <=> logo_files \cap LogoCandidates = {}
    /\ logo_found # NoPath => logo_found \in logo_files \cap LogoCandidates
    /\ (logo_found # NoPath /\ logo_found # logo_hint) =>
         /\ \A f \in logo_files \cap LogoCandidates :
              f.dir \in Range(SearchDirs)
                => DirIndex(logo_found.dir) <= DirIndex(f.dir)
         /\ \A f \in HintMatches :
              f.dir = logo_found.dir => logo_found.name = logo_hint.name

\* a file bearing the hint's name and a file bearing a conventional name
\* lie in the same directory, and the call has returned the former
C12_Witness ==
  /\ LogoReturned
  /\ logo_found \in HintMatches
  /\ logo_found # logo_hint
  /\ \E f \in logo_files :
       /\ f.dir = logo_found.dir
       /\ f.name # logo_hint.name
       /\ f \in LogoCandidates

(***************************************************************************)
(* Properties of the totals, checked under TotSpec.                        *)
(***************************************************************************)
\* the sum of f over the positions 1..n
RECURSIVE SumTo(_, _)
SumTo(f, n) == IF n = 0 THEN 0 ELSE SumTo(f, n - 1) + f[n]

\* equality of two quotients
FracEq(a, b) == a.num * b.den = b.num * a.den

\* an integer as a quotient
Whole(n) == Frac(n, 1)

\* C13: the generated totals satisfy valor_mercadoria = sum of
\* quantidade_kg * valor_kg, valor_ipi = valor_mercadoria * ipi_perc / 100,
\* total_nf = valor_mercadoria + valor_ipi, total_kg = sum of quantidade_kg
\* and valor_parcela = total_nf / qtde_parcelas; one item of 50 kg at 20 per
\* kg with ipi_perc 5 gives 1000, 50 and 1050.
C13_TotalsExact ==
  tot_pc = "done" =>
    LET o == tot_out[1]
        n == Len(tot_itens)
        mercadoria ==
          SumTo([k \in 1..n |->
                   tot_itens[k].quantidade_kg * tot_itens[k].valor_kg], n)
    IN /\ o.valor_mercadoria = mercadoria
       /\ o.valor_ipi.num * 100 = mercadoria * tot_ipi * o.valor_ipi.den
       /\ FracEq(o.total_nf,
                 Frac(mercadoria * o.valor_ipi.den + o.valor_ipi.num,
                      o.valor_ipi.den))
       /\ o.total_kg = SumTo([k \in 1..n |-> tot_itens[k].quantidade_kg], n)
       /\ o.valor_parcela.num * tot_parcelas * o.total_nf.den
            = o.total_nf.num * o.valor_parcela.den
       /\ (n = 1 /\ tot_itens[1].quantidade_kg = 50
             /\ tot_itens[1].valor_kg = 20 /\ tot_ipi = 5)
            => /\ o.valor_mercadoria = 1000
               /\ FracEq(o.valor_ipi, Whole(50))
               /\ FracEq(o.total_nf, Whole(1050))

\* the totals of one item of 50 kg at 20 per kg with 5 percent, in two
\* instalments of 525
C13_Witness ==
  /\ tot_pc = "done"
  /\ Len(tot_itens) = 1
  /\ tot_itens[1].quantidade_kg = 50
  /\ tot_itens[1].valor_kg = 20
  /\ tot_ipi = 5
  /\ tot_parcelas = 2
  /\ FracEq(tot_out[1].total_nf, Whole(1050))
  /\ FracEq(tot_out[1].valor_parcela, Whole(525))

(***************************************************************************)
(* Properties of the session, checked under SessSpec.                      *)
(***************************************************************************)
\* the handler of 'Gerar PDF do Orçamento' has run in the latest run
GerarRan == run_pc = "idle" /\ gerar_outcome # "none"

\* C11: whatever the resolution of logo and watermark gives (no file, a file
\* that is read, a file whose reading fails), a generation that passed the
\* checks of its inputs builds the record and reaches the call of criar_pdf.
C11_AssetErrorsNeverEscalate ==
  (GerarRan /\ gerar_outcome \notin {"input_check_failed",
                                     "validation_errors"})
    => /\ dados # <<>>
       /\ Len(criar_pdf_calls) = 1

\* C14: criar_pdf is invoked only with a record whose razao_social is
\* non-empty, whose item list is non-empty and whose items all have
\* quantidade_kg > 0 and valor_kg > 0; a generation stopped by a check
\* reports errors and does not invoke it.
C14_CriarPdfOnlyWithValidRecord ==
  /\ \A k \in 1..Len(criar_pdf_calls) :
       LET d == criar_pdf_calls[k]
       IN /\ d.cliente.razao_social # ""
          /\ d.itens # <<>>
          /\ \A j \in 1..Len(d.itens) :
               d.itens[j].quantidade_kg > 0 /\ d.itens[j].valor_kg > 0
  /\ gerar_outcome \in {"input_check_failed", "validation_errors"}
       => criar_pdf_calls = <<>>

\* criar_pdf has been called with a full item list and has returned bytes
C14_Witness ==
  /\ GerarRan
  /\ Len(criar_pdf_calls) = 1
  /\ Len(criar_pdf_calls[1].itens) = MaxItens
  /\ gerar_outcome = "success"

C19_ItemRateEqualsTotalsRate ==
  \A k \in 1..Len(criar_pdf_calls) :
    \A j \in 1..Len(criar_pdf_calls[k].itens) :
      criar_pdf_calls[k].itens[j].ipi_item = criar_pdf_calls[k].totais.ipi_perc

\* C20: from 'Editar' until 'Salvar Alterações' or 'Cancelar Edição',
\* editing_item designates the item on which 'Editar' was pressed, whatever
\* 'Remover', 'Limpar Itens' and 'Adicionar Item' do in between; an index
\* that no longer exists is the only other case.
C20_EditingDesignatesChosenItem ==
  (editing_item.some /\ editing_item.idx < Len(itens))
    => itens[editing_item.idx + 1].obj = editing_obj

(***************************************************************************)
(* Properties of the stores, checked under StoreSpec.                      *)
(***************************************************************************)
\* no two rows share a key that is neither empty nor NULL
UniqueKeys(rows) ==
  \A i, j \in 1..Len(rows) :
    (i # j /\ rows[i].key \notin {"", Null}) => rows[i].key # rows[j].key

\* a form submission whose key is stored is answered False and changes
\* neither the worksheet nor the cache; so is a database call
RejectsStoredKey ==
  /\ (/\ store_pc = "sidebar_clientes"
      /\ store_event.widget = "new_client_form"
      /\ FormComplete(store_event.data)
      /\ KeyStored("Clientes", sheet_clientes, store_event.data.key))
       => /\ add_ret' = [fn |-> "add_client", ok |-> FALSE]
          /\ sheet_clientes' = sheet_clientes
          /\ clientes_cache' = clientes_cache
  /\ (/\ store_pc = "sidebar_produtos"
      /\ store_event.widget = "new_product_form"
      /\ FormComplete(store_event.data)
      /\ KeyStored("Produtos", sheet_produtos, store_event.data.key))
       => /\ add_ret' = [fn |-> "add_product", ok |-> FALSE]
          /\ sheet_produtos' = sheet_produtos
          /\ produtos_cache' = produtos_cache
  /\ \A data \in DbData :
       (/\ DbAddClientWith(data)
        /\ data.key \notin {"", Null}
        /\ \E k \in 1..Len(db_clientes) : db_clientes[k].key = data.key)
         => /\ db_ret'.ok = FALSE
            /\ db_clientes' = db_clientes

\* C15: after any sequence of add_client / add_product calls executed one at
\* a time, no two stored records share a non-empty CNPJ / SKU, and a call
\* whose key is already stored returns False and leaves the store unchanged;
\* for the worksheets and for the sqlite table.
C15_UniqueBusinessKey ==
  /\ [](/\ UniqueKeys(sheet_clientes)
        /\ UniqueKeys(sheet_produtos)
        /\ UniqueKeys(db_clientes))
  /\ [][RejectsStoredKey]_vars

\* a client was added, and a second submission of its CNPJ was answered
\* False
C15_Witness ==
  /\ store_pc = "sidebar_produtos"
  /\ session_added.Clientes # <<>>
  /\ store_event.widget = "new_client_form"
  /\ store_event.data.key = session_added.Clientes[1].key
  /\ add_ret = [fn |-> "add_client", ok |-> FALSE]
  /\ Len(sheet_clientes) >= 2

\* the cache of a worksheet: read once, then the first load followed by the
\* records this session added, each of them found under its id
CacheFollowsSession(aba, cache, by_id(_, _)) ==
  /\ sheet_reads[aba] <= 1
  /\ cache.set =>
       /\ first_load[aba].set
       /\ cache.list = first_load[aba].list \o session_added[aba]
       /\ \A k \in 1..Len(session_added[aba]) :
            by_id(cache.list, session_added[aba][k].id)
              = session_added[aba][k]

UniqueIds(rows) ==
  \A i, j \in 1..Len(rows) : i # j => rows[i].id # rows[j].id

\* C21: when add_client (add_product) calls of two sessions interleave at
\* the granularity of their spreadsheet requests, the worksheet never holds
\* two rows with the same non-empty CNPJ (SKU) and never two rows with the
\* same id.
C21_InterleavedAddsKeepRowsUnique ==
  /\ UniqueKeys(sheet_clientes)
  /\ UniqueKeys(sheet_produtos)
  /\ UniqueIds(sheet_clientes)
  /\ UniqueIds(sheet_produtos)

=============================================================================
